---- MODULE Spec2Model ----
(***************************************************************************)
(* pylibob (LibOneBot): the action dispatch engine of OneBotImpl.          *)
(*                                                                         *)
(* Python values are tagged records [kind, val]; Python dicts are TLA+     *)
(* functions whose DOMAIN is the dict's key set (an absent key is a key    *)
(* outside the DOMAIN, so dict.get(k) is DictGet).  Strings are TLA+       *)
(* strings and f-strings are built with \o.                                *)
(***************************************************************************)
EXTENDS Integers, Sequences, FiniteSets, TLC

VARIABLES
    bots,       \* OneBotImpl.bots: ordered dict "platform.user_id" -> Bot
    actions,    \* OneBotImpl.actions: dict action name -> ActionHandlerWithValidate
    regCount,   \* number of register_action_handler calls made after construction
    pc,         \* position of the request in flight: idle / handler / done / raised
    data,       \* the raw request dict given to Connection.run_action
    calls,      \* the handler invocations made for the request in flight
    resp        \* the ActionResponse returned for the request in flight

\* the transports and their construction
VARIABLES
    transports, \* the transport objects constructed so far, in order
    asgi,       \* asgi_app routes and asgi_lifespan_manager hook lists
    impl,       \* the OneBotImpl built from them: conns, conn_types
    lastCall    \* the last constructor call: its arguments and what it raised

\* utils.authorize
VARIABLES
    authArgs,   \* the (access_token, request) authorize is applied to
    authResult  \* what authorize returned for authArgs

\* the HTTP transport
VARIABLES
    event_queue, \* HTTP.event_queue: the buffered events, oldest first
    emit,        \* the emit_event calls made: their number, what the last raised
    served,      \* the last HTTP request and what receive_http_request did
    returned     \* every event get_latest_events has returned, in order

\* the WebSocket transports
VARIABLES
    ws,         \* WebSocketConnection.ws: the attached peers, in list order
    peers,      \* every connection made and the coroutine that serves it
    heartbeat,  \* the _heartbeat task: its position in the loops
    tasks,      \* the send tasks emit_event created, in creation order
    client,     \* WebSocketReverse.connect_to_remote: its position
    runner,     \* whether the runner has run the startup hooks
    wsCall,     \* the constructor call that built the WebSocket transport
    workload    \* how many connections the run makes, how many frames they send

\* the delivery of events by HTTPWebhook and by OneBotImpl.emit
VARIABLES
    webhook,    \* HTTPWebhook.emit_event: its position, the POSTs it made,
                \* the reply it got and the actions it dispatched
    fanout,     \* OneBotImpl.emit: the calls made and the tasks they created
    lifespan    \* ClientRunner and its LifespanManager: the hooks, the
                \* position of run(), the tasks of its TaskManager

dispatchVars == <<bots, actions, regCount, pc, data, calls, resp>>
ctorVars == <<transports, asgi, impl, lastCall>>
authVars == <<authArgs, authResult>>
httpVars == <<event_queue, emit, served, returned>>
wsVars == <<ws, peers, heartbeat, tasks, client, runner, wsCall, workload>>
pushVars == <<webhook, fanout, lifespan>>
transportVars == <<ctorVars, authVars, httpVars, wsVars, pushVars>>
vars == <<dispatchVars, transportVars>>

----------------------------------------------------------------------------
(* Bounds of the model *)

\* largest number of Bot instances given to OneBotImpl.__init__
MaxBots == 2
\* largest number of keys of a request's params dict
MaxParams == 2
\* largest number of register_action_handler calls after construction
MaxRegs == 1

----------------------------------------------------------------------------
(* status.py: retcodes *)

OK == 0
BAD_REQUEST == 10001
UNSUPPORTED_ACTION == 10002
BAD_PARAM == 10003
UNSUPPORTED_PARAM == 10004
UNSUPPORTED_SEGMENT == 10005
WHO_AM_I == 10101
UNKNOWN_SELF == 10102
INTERNAL_HANDLER_ERROR == 20002

----------------------------------------------------------------------------
(* Python values *)

PyNone == [kind |-> "None", val |-> "None"]
PyStr(s) == [kind |-> "str", val |-> s]
PyInt(s) == [kind |-> "int", val |-> s]
BotValue(bot) == [kind |-> "Bot", val |-> bot]
NameList(names) == [kind |-> "names", val |-> names]
VersionDict == [kind |-> "impl_ver", val |-> "impl_ver"]
StatusDict(bs) == [kind |-> "status", val |-> bs]

\* inspect.Parameter.empty
Empty == [kind |-> "empty", val |-> "empty"]

\* Python truth value of a str | None
Falsy(v) == v = PyNone \/ (v.kind = "str" /\ v.val = "")

\* dict operations
EmptyDict == [k \in {} |-> PyNone]
DictGet(d, k) == IF k \in DOMAIN d THEN d[k] ELSE PyNone
DictSet(d, k, v) == [x \in (DOMAIN d) \cup {k} |-> IF x = k THEN v ELSE d[x]]
DictPop(d, k) == [x \in (DOMAIN d) \ {k} |-> d[x]]

----------------------------------------------------------------------------
(* Bots *)

Bot(platform, user_id) == [platform |-> platform, user_id |-> user_id]

\* the Bot instances a dispatcher may be built from
AllBots == <<Bot("qq", "1.1"), Bot("tg", "7"), Bot("tg", "8")>>

\* f"{bot.platform}.{bot.user_id}"
BotKey(bot) == bot.platform \o "." \o bot.user_id

\* the dict comprehension of __init__: an ordered dict as a sequence of
\* <<key, value>> entries; a repeated key keeps its place and takes the
\* later value
RECURSIVE MakeBots(_, _)
MakeBots(args, acc) ==
    IF args = <<>> THEN acc
    ELSE LET bot == Head(args)
             key == BotKey(bot)
             hit == {i \in 1..Len(acc) : acc[i][1] = key}
         IN  MakeBots(Tail(args),
                      IF hit = {} THEN Append(acc, <<key, bot>>)
                      ELSE [i \in 1..Len(acc) |->
                               IF i \in hit THEN <<key, bot>> ELSE acc[i]])

BotKeys(bs) == {bs[i][1] : i \in 1..Len(bs)}
BotsGet(bs, key) == bs[CHOOSE i \in 1..Len(bs) : bs[i][1] = key][2]
\* next(iter(self.bots.values()))
FirstBot(bs) == bs[1][2]

\* the argument lists *bots of __init__ that pass `if not bots`
BotArgs == {SubSeq(AllBots, 1, n) : n \in 1..MaxBots}

----------------------------------------------------------------------------
(* Action handlers: the functions given to register_action_handler *)

Plain(t) == [origin |-> "plain", type |-> t, metadata |-> ""]
Annotated(t, wire) == [origin |-> "Annotated", type |-> t, metadata |-> wire]
BotAnnotation == [origin |-> "plain", type |-> "Bot", metadata |-> ""]
Parameter(name, annotation, default) ==
    [name |-> name, annotation |-> annotation, default |-> default]

\* the meta-action methods of OneBotImpl and HTTP
BuiltinHandlers ==
    {"action_get_status", "action_get_version",
     "action_get_supported_actions", "action_get_latest_events"}

\* user-supplied handlers:
\*   async def f_msg(a: str, c: Bot)
\*   async def f_ext(b: Annotated[int, "extra.param"] = 5)
\*   async def f_nul(b: Annotated[Optional[int], "extra.param"])
UserHandlers == {"f_msg", "f_ext", "f_nul"}

\* inspect.signature(func).parameters (bound methods: without self)
Signature(func) ==
    CASE func = "f_msg" ->
           <<Parameter("a", Plain("str"), Empty),
             Parameter("c", BotAnnotation, Empty)>>
      [] func = "f_ext" ->
           <<Parameter("b", Annotated("int", "extra.param"), PyInt("5"))>>
      [] func = "f_nul" ->
           <<Parameter("b", Annotated("Optional[int]", "extra.param"), Empty)>>
      [] func = "action_get_latest_events" ->
           <<Parameter("limit", Plain("int"), PyInt("0")),
             Parameter("timeout", Plain("int"), PyInt("0"))>>
      [] OTHER -> <<>>

\* utils.analytic_typing: (name, type, default, TypingType) per parameter
analytic_typing(func) ==
    LET sig == Signature(func)
    IN  [i \in 1..Len(sig) |->
            LET p == sig[i]
            IN  IF p.annotation.type = "Bot" /\ p.annotation.origin = "plain"
                THEN [name |-> p.name, type |-> p.annotation,
                      default |-> Empty, typing_type |-> "BOT"]
                ELSE IF p.annotation.origin = "Annotated"
                THEN [name |-> p.name, type |-> p.annotation,
                      default |-> p.default, typing_type |-> "ANNOTATED"]
                ELSE [name |-> p.name, type |-> p.annotation,
                      default |-> p.default, typing_type |-> "NORMAL"]]

\* the ActionHandlerWithValidate that register_action_handler stores:
\* handler, keys, typing_types (in signature order) and the defstruct model
Registration(func) ==
    LET types == analytic_typing(func)
    IN  [handler |-> func,
         keys |-> {types[i].name : i \in 1..Len(types)},
         types |-> [i \in 1..Len(types) |->
                       [name |-> types[i].name, type |-> types[i].type,
                        typing_type |-> types[i].typing_type]],
         model |-> [i \in 1..Len(types) |->
                       [name |-> types[i].name, type |-> types[i].type,
                        default |-> types[i].default]]]

\* self.actions[action] = ...: re-registration overwrites
register_action_handler(acts, action, func) ==
    DictSet(acts, action, Registration(func))

----------------------------------------------------------------------------
(* types.py: ActionResponse and FailedActionResponse *)

ActionResponse(status, retcode, data_, message, echo) ==
    [status |-> status, retcode |-> retcode, data |-> data_,
     message |-> message, echo |-> echo]

FailedActionResponse(retcode, data_, message, echo) ==
    ActionResponse("failed", retcode, data_, message, echo)

\* no response has been returned
NoResp == ActionResponse("none", -1, PyNone, PyNone, PyNone)

\* what a call of handle_action has come to when it returns, raises, or
\* reaches `await handler(**params)`
Return(r) == [kind |-> "return", resp |-> r, handler |-> "", kwargs |-> EmptyDict]
Raise(exc) == [kind |-> "raise", resp |-> NoResp, handler |-> exc, kwargs |-> EmptyDict]
Call(h, kw) == [kind |-> "call", resp |-> NoResp, handler |-> h, kwargs |-> kw]

----------------------------------------------------------------------------
(* impl.py: OneBotImpl.handle_action, up to the call of the handler *)

\* `bot_self` as a condition: None and {} are false
Truthy(bot_self) == bot_self # PyNone /\ DOMAIN bot_self # {}

\* line 263: `if not action_handler` (a NamedTuple of four fields is true)
ActionSupported(acts, action) == action \in DOMAIN acts

UnsupportedActionResponse(echo) ==
    FailedActionResponse(UNSUPPORTED_ACTION, PyNone,
                         PyStr("action is not supported"), echo)

\* mutant: the selector is demanded only from the third bot on
WhoAmI_OffByOne(bs, bot_self) == Len(bs) > 2 /\ ~Truthy(bot_self)

\* line 270
WhoAmI(bs, bot_self) == Len(bs) > 1 /\ ~Truthy(bot_self)

WhoAmIResponse(echo) ==
    FailedActionResponse(WHO_AM_I, PyNone, PyStr("bot is not detect"), echo)

\* lines 277-279; the subscripts raise KeyError on a selector without them
BotIdRaises(bot_self) ==
    Truthy(bot_self) /\ ~({"platform", "user_id"} \subseteq DOMAIN bot_self)

BotId(bot_self) ==
    IF Truthy(bot_self)
    THEN bot_self["platform"] \o "." \o bot_self["user_id"]
    ELSE ""

\* mutant: the selector is looked up only when several bots are registered
UnknownSelf_SeveralBotsOnly(bs, bot_id) ==
    Len(bs) > 1 /\ bot_id # "" /\ bot_id \notin BotKeys(bs)

\* line 280
UnknownSelf(bs, bot_id) == bot_id # "" /\ bot_id \notin BotKeys(bs)

UnknownSelfResponse(bot_id, echo) ==
    FailedActionResponse(UNKNOWN_SELF, PyNone,
                         PyStr("bot " \o bot_id \o " is not exist"), echo)

\* line 287: self.bots.get(bot_id) or next(iter(self.bots.values()))
ResolveBot(bs, bot_id) ==
    IF bot_id \in BotKeys(bs) THEN BotsGet(bs, bot_id) ELSE FirstBot(bs)

\* lines 289-295: the implicit parameters, in signature order
RECURSIVE InjectParams(_, _, _, _)
InjectParams(params, types, bot, i) ==
    IF i > Len(types) THEN params
    ELSE LET t == types[i]
             wire == t.type.metadata
             injected ==
                 IF t.typing_type = "BOT"
                 THEN DictSet(params, t.name, BotValue(bot))
                 ELSE IF t.typing_type = "ANNOTATED"
                 THEN DictSet(DictPop(params, wire), t.name,
                              DictGet(params, wire))
                 ELSE params
         IN  InjectParams(injected, types, bot, i + 1)

\* msgspec's strict conversion of one value to a field type
TypeAccepts(type, v) ==
    CASE type = "str" -> v.kind = "str"
      [] type = "int" -> v.kind = "int"
      [] type = "Optional[int]" -> v.kind \in {"int", "None"}
      [] type = "Bot" -> v.kind = "Bot"
      [] OTHER -> FALSE

\* line 298: msgspec.convert(params, model) raises ValidationError when a
\* field without default is missing or a present field has the wrong type
\* (keys that are no field of the struct are ignored)
ValidationError(params, model) ==
    \E i \in 1..Len(model) :
        IF model[i].name \in DOMAIN params
        THEN ~TypeAccepts(model[i].type.type, params[model[i].name])
        ELSE model[i].default = Empty

BadParamResponse(echo) ==
    FailedActionResponse(BAD_PARAM, PyNone, PyStr("ValidationError"), PyNone)

\* line 302: set(params) - set(keys)
ExtraParams(params, keys) == (DOMAIN params) \ keys

UnsupportedParamResponse(echo) ==
    FailedActionResponse(UNSUPPORTED_PARAM, PyNone,
                         PyStr("Don't support params"), PyNone)

\* mutant: a value the caller put under the name of the current-bot
\* parameter is kept instead of being overwritten by the resolved bot
ValidateAndCall_KeepCaller(reg, bot, params, echo) ==
    LET injected == InjectParams(params, reg.types, bot, 1)
        kwargs == [k \in DOMAIN injected |->
                      IF k \in DOMAIN params /\ injected[k].kind = "Bot"
                      THEN params[k] ELSE injected[k]]
    IN  IF ValidationError(kwargs, reg.model)
        THEN Return(BadParamResponse(echo))
        ELSE IF ExtraParams(kwargs, reg.keys) # {}
        THEN Return(UnsupportedParamResponse(echo))
        ELSE Call(reg.handler, kwargs)

\* lines 289-324: inject, validate, and reach the call of the handler
ValidateAndCall(reg, bot, params, echo) ==
    LET kwargs == InjectParams(params, reg.types, bot, 1)
    IN  IF ValidationError(kwargs, reg.model)
        THEN Return(BadParamResponse(echo))
        ELSE IF ExtraParams(kwargs, reg.keys) # {}
        THEN Return(UnsupportedParamResponse(echo))
        ELSE Call(reg.handler, kwargs)

\* lines 270-287: find the bot the request is for
ResolveSelf(acts, bs, action, params, bot_self, echo) ==
    IF WhoAmI(bs, bot_self)
    THEN Return(WhoAmIResponse(echo))
    ELSE IF BotIdRaises(bot_self)
    THEN Raise("KeyError")
    ELSE IF UnknownSelf(bs, BotId(bot_self))
    THEN Return(UnknownSelfResponse(BotId(bot_self), echo))
    ELSE ValidateAndCall(acts[action], ResolveBot(bs, BotId(bot_self)),
                         params, echo)

\* mutant: the bot selector is examined before the action name
handle_action_SelfFirst(acts, bs, action, params, bot_self, echo) ==
    IF WhoAmI(bs, bot_self)
    THEN Return(WhoAmIResponse(echo))
    ELSE IF ~ActionSupported(acts, action)
    THEN Return(UnsupportedActionResponse(echo))
    ELSE ResolveSelf(acts, bs, action, params, bot_self, echo)

handle_action(acts, bs, action, params, bot_self, echo) ==
    IF ~ActionSupported(acts, action)
    THEN Return(UnsupportedActionResponse(echo))
    ELSE ResolveSelf(acts, bs, action, params, bot_self, echo)

----------------------------------------------------------------------------
(* connection.py: Connection.run_action *)

BadRequestResponse(message) ==
    FailedActionResponse(BAD_REQUEST, PyNone, PyStr(message), PyNone)

run_action(acts, bs, d) ==
    IF Falsy(DictGet(d, "action"))
    THEN Return(BadRequestResponse("action is not exist."))
    ELSE IF "params" \notin DOMAIN d
    THEN Return(BadRequestResponse("params is not exist."))
    ELSE handle_action(acts, bs, d["action"].val, d["params"],
                       DictGet(d, "self"), DictGet(d, "echo"))

----------------------------------------------------------------------------
(* impl.py: handle_action from the call of the handler on (lines 308-324) *)

\* what a handler call came to: still awaited, returned `data_`, raised
\* OneBotImplError(retcode, data_, message), or raised another Exception
HandlerOutcome(kind, retcode, data_, message) ==
    [kind |-> kind, retcode |-> retcode, data |-> data_, message |-> message]
Pending == HandlerOutcome("pending", -1, PyNone, PyNone)
Returned(v) == HandlerOutcome("return", -1, v, PyNone)
OneBotImplError(retcode, data_, message) ==
    HandlerOutcome("OneBotImplError", retcode, data_, message)
OtherException == HandlerOutcome("Exception", -1, PyNone, PyNone)

\* mutant: a domain error is reported like any other handler failure
ImplErrorResponse_Remapped(e, echo) ==
    FailedActionResponse(INTERNAL_HANDLER_ERROR, PyNone, PyNone, echo)

\* lines 311-317
ImplErrorResponse(e, echo) ==
    FailedActionResponse(e.retcode, e.data, e.message, echo)

\* lines 318-323
InternalHandlerErrorResponse(echo) ==
    FailedActionResponse(INTERNAL_HANDLER_ERROR, PyNone, PyNone, echo)

\* mutant: the handler's result is dropped
OkResponse_NoData(data_, echo) == ActionResponse("ok", OK, PyNone, PyNone, echo)

\* line 324
OkResponse(data_, echo) == ActionResponse("ok", OK, data_, PyNone, echo)

\* mutant: only `except OneBotImplError`
Caught_ImplErrorOnly(outcome) == outcome.kind = "OneBotImplError"

\* lines 311 and 318: the except clauses take every Exception
Caught(outcome) == outcome.kind \in {"OneBotImplError", "Exception"}

\* lines 308-324: the response handle_action builds from the handler's outcome
HandlerResponse(outcome, echo) ==
    CASE outcome.kind = "OneBotImplError" -> ImplErrorResponse(outcome, echo)
      [] outcome.kind = "Exception" -> InternalHandlerErrorResponse(echo)
      [] OTHER -> OkResponse(outcome.data, echo)

\* the meta-actions of OneBotImpl: they await nothing, so they return
\* within the step that calls them
\* mutant: a fixed list of the meta-actions
action_get_supported_actions_Fixed(acts) ==
    NameList({"get_status", "get_version", "get_supported_actions"})

action_get_supported_actions(acts) == NameList(DOMAIN acts)
action_get_version == VersionDict
action_get_status(bs) == StatusDict({bs[i][2] : i \in 1..Len(bs)})

BuiltinResult(handler, acts, bs) ==
    CASE handler = "action_get_supported_actions" ->
           action_get_supported_actions(acts)
      [] handler = "action_get_version" -> action_get_version
      [] OTHER -> action_get_status(bs)

----------------------------------------------------------------------------
(* Inputs *)

ActionNames == {"", "nope", "hello", "get_supported_actions"}
RegisterNames == {"hello", "get_supported_actions"}
ParamKeys == {"a", "c", "extra.param", "x"}
ParamValues == {PyStr("s"), PyInt("1"), PyNone}
\* the values a request gives to a key
ParamValuesOf(k) ==
    CASE k = "a" -> {PyStr("s"), PyInt("1")}
      [] k = "extra.param" -> {PyInt("1"), PyStr("s"), PyNone}
      [] k = "c" -> {PyStr("s")}
      [] OTHER -> {PyInt("1")}
ParamInputs ==
    UNION {{p \in [K -> ParamValues] : \A k \in K : p[k] \in ParamValuesOf(k)} :
              K \in {S \in SUBSET ParamKeys : Cardinality(S) <= MaxParams}}
SelfInputs ==
    {EmptyDict, [platform |-> "qq"],
     Bot("qq", "1.1"), Bot("qq.1", "1"), Bot("tg", "7"), Bot("tg", "8")}
EchoInputs == {PyStr("e1")}

\* the request dicts: every subset of the four keys may be present
RequestData ==
    UNION {{[k \in K |->
                CASE k = "action" -> PyStr(a)
                  [] k = "params" -> p
                  [] k = "self" -> s
                  [] OTHER -> e] :
              a \in ActionNames, p \in ParamInputs,
              s \in SelfInputs, e \in EchoInputs} :
           K \in SUBSET {"action", "params", "self", "echo"}}

ReturnValues == {PyStr("r1"), PyNone}
ErrorRetcodes == {OK, UNSUPPORTED_SEGMENT, INTERNAL_HANDLER_ERROR}
ErrorData == {PyNone, PyStr("d1")}
ErrorMessages == {PyStr(""), PyStr("m1")}

----------------------------------------------------------------------------
(* The dispatcher as a state machine *)

\* __init__ lines 116-128: HTTP.init_connection registers get_latest_events
\* when its event queue is enabled, then the three meta-actions follow
InitActions(event_enabled) ==
    LET a0 == IF event_enabled
              THEN register_action_handler(EmptyDict, "get_latest_events",
                                           "action_get_latest_events")
              ELSE EmptyDict
        a1 == register_action_handler(a0, "get_status", "action_get_status")
        a2 == register_action_handler(a1, "get_version", "action_get_version")
    IN  register_action_handler(a2, "get_supported_actions",
                                "action_get_supported_actions")

----------------------------------------------------------------------------
(* Transports: the Connection classes and their constructors *)

\* largest number of transport objects constructed
MaxConns == 2

\* the default of heartbeat_interval and reconnect_interval
DefaultInterval == 5000
\* the default of event_buffer_size
DefaultBufferSize == 20

\* a Queue(maxsize) | None attribute
NoQueue == [enabled |-> FALSE, maxsize |-> 0]
Queue(maxsize) == [enabled |-> TRUE, maxsize |-> maxsize]

\* an instance of cls before any __init__ has run (_impl: whether a
\* dispatcher is bound; inits: the init_connection calls made on it)
Object(cls) ==
    [cls |-> cls, access_token |-> PyNone, _impl |-> FALSE, inits |-> 0,
     enable_heartbeat |-> FALSE, heartbeat_interval |-> 0,
     reconnect_interval |-> 0, event_queue |-> NoQueue]

NoError == ""
ValueError == "ValueError"
Done(self) == [self |-> self, raised |-> NoError]
Raised(self, error) == [self |-> self, raised |-> error]

\* Connection.__init__
Connection__init__(self, access_token) ==
    [self EXCEPT !.access_token = access_token, !._impl = FALSE]

\* ServerConnection.__init__(access_token=None, host, port)
ServerConnection__init__(self, access_token) ==
    Connection__init__(self, access_token)

\* WebSocketConnection.__init__ accepting a zero interval
WebSocketConnection__init___ZeroAllowed(self, access_token, enable_heartbeat, heartbeat_interval) ==
    LET s1 == IF self.cls = "WebSocket"
              THEN ServerConnection__init__(self, access_token)
              ELSE Connection__init__(self, access_token)
        s2 == [s1 EXCEPT !.enable_heartbeat = enable_heartbeat]
    IN  IF heartbeat_interval < 0 THEN Raised(s2, ValueError)
        ELSE Done([s2 EXCEPT !.heartbeat_interval = heartbeat_interval])

\* WebSocketConnection.__init__; its super().__init__ is the next class of
\* the instance's MRO: ServerConnection for a WebSocket, Connection for a
\* WebSocketReverse
WebSocketConnection__init__(self, access_token, enable_heartbeat, heartbeat_interval) ==
    LET s1 == IF self.cls = "WebSocket"
              THEN ServerConnection__init__(self, access_token)
              ELSE Connection__init__(self, access_token)
        s2 == [s1 EXCEPT !.enable_heartbeat = enable_heartbeat]
    IN  IF heartbeat_interval <= 0 THEN Raised(s2, ValueError)
        ELSE Done([s2 EXCEPT !.heartbeat_interval = heartbeat_interval])

\* ClientConnection.__init__(url, access_token=None); its super().__init__
\* is WebSocketConnection.__init__ (with that one's defaults) for a
\* WebSocketReverse and Connection.__init__ for an HTTPWebhook
ClientConnection__init__(self, access_token) ==
    IF self.cls = "WebSocketReverse"
    THEN WebSocketConnection__init__(self, access_token, TRUE,
                                     DefaultInterval).self
    ELSE Connection__init__(self, access_token)

\* HTTP.__init__
HTTP__init__(access_token, event_enabled, event_buffer_size) ==
    Done([ServerConnection__init__(Object("HTTP"), access_token) EXCEPT
             !.event_queue = IF event_enabled THEN Queue(event_buffer_size)
                             ELSE NoQueue])

\* HTTPWebhook.__init__
HTTPWebhook__init__(access_token) ==
    Done(ClientConnection__init__(Object("HTTPWebhook"), access_token))

\* WebSocket.__init__: WebSocketConnection.__init__ with the arguments,
\* then ServerConnection.__init__(host=host, port=port), whose access_token
\* is its default
WebSocket__init__(access_token, enable_heartbeat, heartbeat_interval) ==
    LET r == WebSocketConnection__init__(Object("WebSocket"), access_token,
                                         enable_heartbeat, heartbeat_interval)
    IN  IF r.raised # NoError THEN r
        ELSE Done(ServerConnection__init__(r.self, PyNone))

\* WebSocketReverse.__init__: ClientConnection.__init__(url, access_token),
\* then WebSocketConnection.__init__(enable_heartbeat, heartbeat_interval),
\* whose access_token is its default, then the reconnect_interval check
WebSocketReverse__init__(access_token, reconnect_interval, enable_heartbeat, heartbeat_interval) ==
    LET s1 == ClientConnection__init__(Object("WebSocketReverse"),
                                       access_token)
        r == WebSocketConnection__init__(s1, PyNone, enable_heartbeat,
                                         heartbeat_interval)
    IN  IF r.raised # NoError THEN r
        ELSE IF reconnect_interval <= 0 THEN Raised(r.self, ValueError)
        ELSE Done([r.self EXCEPT !.reconnect_interval = reconnect_interval])

----------------------------------------------------------------------------
(* utils.authorize *)

\* an HTTPConnection: its headers and its URL query parameters
HTTPConnection(headers, query_params) ==
    [headers |-> headers, query_params |-> query_params]

\* authorize(access_token, request)
authorize(access_token, request) ==
    IF access_token = PyNone THEN TRUE
    ELSE LET request_token == DictGet(request.headers, "Authorization")
         IN  IF /\ ~Falsy(request_token)
                /\ request_token = PyStr("Bearer " \o access_token.val)
             THEN TRUE
             ELSE LET query_token ==
                          DictGet(request.query_params, "access_token")
                  IN  ~Falsy(query_token) /\ query_token = access_token

----------------------------------------------------------------------------
(* OneBotImpl.__init__ *)

\* asgi_app and asgi_lifespan_manager before any init_connection
EmptyAsgi == [routes |-> <<>>, startup |-> <<>>, shutdown |-> <<>>]

\* HTTP.init_connection / WebSocket.init_connection / Connection.init_connection
\* on st = [transports, asgi, actions, conn_types]
init_connection(st, i) ==
    LET conn == st.transports[i]
    IN  CASE conn.cls = "HTTP" ->
               [st EXCEPT
                  !.asgi.routes = Append(@, "http"),
                  !.actions = IF conn.event_queue.enabled
                              THEN register_action_handler(
                                       @, "get_latest_events",
                                       "action_get_latest_events")
                              ELSE @]
          [] conn.cls = "WebSocket" ->
               [st EXCEPT
                  !.asgi.routes = Append(@, "ws"),
                  !.asgi.startup = IF conn.enable_heartbeat
                                   THEN Append(@, "_start_heartbeat") ELSE @,
                  !.asgi.shutdown = IF conn.enable_heartbeat
                                    THEN Append(@, "_stop_heartbeat") ELSE @]
          [] OTHER -> st

\* the loop `for conn in conns` of __init__
RECURSIVE BindConns(_, _)
BindConns(conns, st) ==
    IF conns = <<>> THEN st
    ELSE LET i == Head(conns)
             cls == st.transports[i].cls
         IN  IF cls \in st.conn_types THEN BindConns(Tail(conns), st)
             ELSE LET s1 == [st EXCEPT !.transports[i]._impl = TRUE,
                                       !.transports[i].inits = @ + 1]
                      s2 == init_connection(s1, i)
                  IN  BindConns(Tail(conns),
                                [s2 EXCEPT !.conn_types = @ \cup {cls}])

\* the three registrations that end __init__
RegisterBuiltins(acts) ==
    register_action_handler(
        register_action_handler(
            register_action_handler(acts, "get_status", "action_get_status"),
            "get_version", "action_get_version"),
        "get_supported_actions", "action_get_supported_actions")

\* __init__ with the `if not bots` check made after the loop over conns
OneBotImpl__init___LateBotsCheck(objs, app, conns, botArgs) ==
    LET st0 == [transports |-> objs, asgi |-> app, actions |-> EmptyDict,
                conn_types |-> {}, bots |-> <<>>, raised |-> NoError]
    IN  IF conns = <<>> THEN [st0 EXCEPT !.raised = ValueError]
        ELSE LET st == BindConns(conns, st0)
             IN  IF botArgs = <<>> THEN [st EXCEPT !.raised = ValueError]
                 ELSE [st EXCEPT !.bots = MakeBots(botArgs, <<>>),
                                 !.actions = RegisterBuiltins(@)]

\* OneBotImpl.__init__(name, version, conns, *bots); conns lists indices
\* into the constructed transports
OneBotImpl__init__(objs, app, conns, botArgs) ==
    LET st0 == [transports |-> objs, asgi |-> app, actions |-> EmptyDict,
                conn_types |-> {}, bots |-> <<>>, raised |-> NoError]
    IN  IF botArgs = <<>> THEN [st0 EXCEPT !.raised = ValueError]
        ELSE IF conns = <<>>
        THEN [st0 EXCEPT !.raised = ValueError,
                         !.bots = MakeBots(botArgs, <<>>)]
        ELSE [BindConns(conns, [st0 EXCEPT !.bots = MakeBots(botArgs, <<>>)])
                 EXCEPT !.actions = RegisterBuiltins(@)]

\* no dispatcher built yet
NoImpl == [built |-> FALSE, conns |-> <<>>, conn_types |-> {}]

\* a constructor call: the class, its arguments and what it raised
ConstructorCall(op, raised) ==
    [op |-> op, raised |-> raised, access_token |-> PyNone,
     enable_heartbeat |-> TRUE, heartbeat_interval |-> DefaultInterval,
     reconnect_interval |-> DefaultInterval, event_enabled |-> TRUE,
     event_buffer_size |-> DefaultBufferSize, conns |-> <<>>, bots |-> <<>>]
NoCall == ConstructorCall("", NoError)

\* the transport variables of a run that constructs nothing
CtorUnused ==
    /\ transports = <<>>
    /\ asgi = EmptyAsgi
    /\ impl = NoImpl
    /\ lastCall = NoCall

NoRequest == [headers |-> EmptyDict, query_params |-> EmptyDict]
AuthUnused ==
    /\ authArgs = [access_token |-> PyNone, request |-> NoRequest]
    /\ authResult = [called |-> FALSE, value |-> FALSE]

\* no request served, no event emitted
NotServed ==
    [called |-> FALSE, request |-> NoRequest,
     response |-> [status_code |-> 0, body |-> NoResp], raised |-> NoError,
     dispatched |-> FALSE, handler |-> "", limit |-> 0]
HttpUnused ==
    /\ event_queue = <<>>
    /\ emit = [count |-> 0, raised |-> NoError]
    /\ served = NotServed
    /\ returned = <<>>

----------------------------------------------------------------------------
(* connection_ws.py: WebSocketConnection, WebSocket, WebSocketReverse *)

\* a frame written to a peer: the connect and heartbeat meta-events and the
\* emitted events are JSON text; a response has the framing send_func has;
\* n is the interval of a heartbeat, the number of an event, the number of
\* the frame a response answers; retcode is the response's
Frame(type, framing, n, retcode) ==
    [type |-> type, framing |-> framing, n |-> n, retcode |-> retcode]
NoFrame == Frame("", "", 0, 0)
MetaConnectEvent == Frame("connect", "JSON", 0, 0)
MetaHeartbeatEvent(interval) == Frame("heartbeat", "JSON", interval, 0)
EventFrame(event) == Frame("event", "JSON", event, 0)
ResponseFrame(content_type, n, retcode) ==
    Frame("response", content_type, n, retcode)

\* the frames written to one connection: the type of the first one, and
\* the frames of each type in the order they were written
NothingSent ==
    [first |-> "", connect |-> <<>>, heartbeat |-> <<>>, event |-> <<>>,
     response |-> <<>>]
Write(sent, frame) ==
    [type \in DOMAIN sent |->
        CASE type = "first" -> IF sent.first = "" THEN frame.type
                               ELSE sent.first
          [] type = frame.type -> Append(sent[type], frame)
          [] OTHER -> sent[type]]

\* a connection and the coroutine that serves it (handle_ws_request, or the
\* body of the `async with` of connect_to_remote): pc is the await the
\* coroutine is at, request the upgrade request, accepted / closed what was
\* done with the upgrade, open whether the connection still stands, gone
\* whether it is the remote end that ended it, sent
\* the frames written to it, received the content types of the frames read
\* from it,
\* pending the response send_func is about to write, raised the exception
\* that ended the coroutine
Peer(request) ==
    [pc |-> "connect", request |-> request, accepted |-> TRUE,
     closed |-> FALSE, open |-> TRUE, gone |-> FALSE, sent |-> NothingSent,
     received |-> <<>>, pending |-> NoFrame, raised |-> NoError]

\* the _heartbeat task before _start_heartbeat, connect_to_remote before run
NoHeartbeat == [pc |-> "off", i |-> 0]
NoClient == [pc |-> "off", fails |-> 0, waits |-> 0]

\* the transport variables of a run without a WebSocket transport
WsUnused ==
    /\ ws = <<>>
    /\ peers = <<>>
    /\ heartbeat = NoHeartbeat
    /\ tasks = <<>>
    /\ client = NoClient
    /\ runner = "init"
    /\ wsCall = NoCall
    /\ workload = [peers |-> 0, frames |-> 0]

\* no reply read, emit_event of the webhook not called; emit not called
NoReply == [status |-> 0, content_type |-> "", encoding |-> "", items |-> <<>>]
NoWebhook ==
    [pc |-> "idle", calls |-> 0, posts |-> 0, reply |-> NoReply, i |-> 0,
     dispatched |-> <<>>, raised |-> NoError]
NoFanout == [calls |-> 0, targets |-> <<>>, tasks |-> <<>>, raised |-> NoError]
\* a ClientRunner before run(), no hook registered
NoLifespan ==
    [pc |-> "init", startup |-> <<>>, shutdown |-> <<>>, i |-> 0,
     log |-> <<>>, should_exit |-> FALSE, tasks |-> <<>>, raised |-> NoError]
PushUnused ==
    /\ webhook = NoWebhook
    /\ fanout = NoFanout
    /\ lifespan = NoLifespan

TransportsUnused ==
    CtorUnused /\ AuthUnused /\ HttpUnused /\ WsUnused /\ PushUnused

Init ==
    /\ \E args \in BotArgs : bots = MakeBots(args, <<>>)
    /\ \E event_enabled \in BOOLEAN : actions = InitActions(event_enabled)
    /\ regCount = 0
    /\ pc = "idle"
    /\ data = EmptyDict
    /\ calls = <<>>
    /\ resp = NoResp
    /\ TransportsUnused

\* OneBotImpl.register_action_handler / the `action` decorator, called
\* before a request or while a handler is awaited
RegisterAction(name, func) ==
    /\ pc \in {"idle", "handler"}
    /\ regCount < MaxRegs
    /\ actions' = register_action_handler(actions, name, func)
    /\ regCount' = regCount + 1
    /\ UNCHANGED <<bots, pc, data, calls, resp>>
    /\ UNCHANGED transportVars

\* a transport hands one request to Connection.run_action; the step runs
\* to the first await of a user handler, or to the end of handle_action
RunAction(d) ==
    /\ pc = "idle"
    /\ data' = d
    /\ LET out == run_action(actions, bots, d)
           echo == DictGet(d, "echo")
       IN  CASE out.kind = "return" ->
                  /\ pc' = "done"
                  /\ resp' = out.resp
                  /\ calls' = <<>>
             [] out.kind = "raise" ->
                  /\ pc' = "raised"
                  /\ resp' = NoResp
                  /\ calls' = <<>>
             [] OTHER ->
                  IF out.handler \in BuiltinHandlers
                  THEN LET v == BuiltinResult(out.handler, actions, bots)
                       IN  /\ pc' = "done"
                           /\ resp' = HandlerResponse(Returned(v), echo)
                           /\ calls' = <<[handler |-> out.handler,
                                          kwargs |-> out.kwargs,
                                          outcome |-> Returned(v)]>>
                  ELSE /\ pc' = "handler"
                       /\ resp' = NoResp
                       /\ calls' = <<[handler |-> out.handler,
                                      kwargs |-> out.kwargs,
                                      outcome |-> Pending]>>
    /\ UNCHANGED <<bots, actions, regCount>>
    /\ UNCHANGED transportVars

\* the awaited user handler finishes with `outcome`
HandlerDone(outcome) ==
    /\ pc = "handler"
    /\ calls' = [calls EXCEPT ![1].outcome = outcome]
    /\ IF outcome.kind = "return" \/ Caught(outcome)
       THEN /\ pc' = "done"
            /\ resp' = HandlerResponse(outcome, DictGet(data, "echo"))
       ELSE /\ pc' = "raised"
            /\ resp' = NoResp
    /\ UNCHANGED <<bots, actions, regCount, data>>
    /\ UNCHANGED transportVars

HandlerReturns == \E v \in ReturnValues : HandlerDone(Returned(v))

HandlerRaisesImplError ==
    \E r \in ErrorRetcodes, d \in ErrorData, m \in ErrorMessages :
        HandlerDone(OneBotImplError(r, d, m))

HandlerRaisesException == HandlerDone(OtherException)

\* the transport has taken the response (or the exception); next request
Finish ==
    /\ pc \in {"done", "raised"}
    /\ pc' = "idle"
    /\ data' = EmptyDict
    /\ calls' = <<>>
    /\ resp' = NoResp
    /\ UNCHANGED <<bots, actions, regCount>>
    /\ UNCHANGED transportVars

Next ==
    \/ \E name \in RegisterNames, func \in UserHandlers :
           RegisterAction(name, func)
    \/ \E d \in RequestData : RunAction(d)
    \/ HandlerReturns
    \/ HandlerRaisesImplError
    \/ HandlerRaisesException
    \/ Finish

Spec == Init /\ [][Next]_vars

----------------------------------------------------------------------------
(* The request in flight, in the words of the specification *)

\* the request reached HandleAction: it names an action and carries params
Dispatched ==
    /\ pc # "idle"
    /\ "action" \in DOMAIN data /\ data["action"].val # ""
    /\ "params" \in DOMAIN data

ReqAction == data["action"].val
ReqParams == data["params"]
ReqEcho == IF "echo" \in DOMAIN data THEN data["echo"] ELSE PyNone

\* no bot selector is given (none, or an empty one)
SelectorMissing == "self" \notin DOMAIN data \/ DOMAIN data["self"] = {}
\* a bot selector {platform, user_id} is given
SelectorGiven ==
    "self" \in DOMAIN data /\ DOMAIN data["self"] = {"platform", "user_id"}
SelectorKey == data["self"]["platform"] \o "." \o data["self"]["user_id"]
RegisteredKeys == {bots[i][1] : i \in 1..Len(bots)}

\* the bot a dispatched request is for
ExpectedBot ==
    IF SelectorGiven
    THEN bots[CHOOSE i \in 1..Len(bots) : bots[i][1] = SelectorKey][2]
    ELSE bots[1][2]

\* the declared schema of a handler: its parameters other than the current
\* bot, each under its wire key (the alias of an aliased parameter)
SchemaFields(func) ==
    {[key |-> IF p.annotation.origin = "Annotated"
              THEN p.annotation.metadata ELSE p.name,
      type |-> p.annotation.type,
      required |-> (p.default = Empty)] :
        p \in {q \in {Signature(func)[i] : i \in 1..Len(Signature(func))} :
                  q.annotation.type # "Bot"}}
ParamNames(func) == {Signature(func)[i].name : i \in 1..Len(Signature(func))}

ValueHasType(v, type) ==
    \/ type = "str" /\ v.kind = "str"
    \/ type = "int" /\ v.kind = "int"
    \/ type = "Optional[int]" /\ v.kind \in {"int", "None"}

\* params lack a required field of the schema or carry a mistyped value
BadParams(params, func) ==
    \E f \in SchemaFields(func) :
        IF f.key \in DOMAIN params
        THEN ~ValueHasType(params[f.key], f.type)
        ELSE f.required
\* params carry a key that the schema does not declare
UnsupportedParams(params, func) ==
    \E k \in DOMAIN params :
        k \notin {f.key : f \in SchemaFields(func)} \cup ParamNames(func)

Failed(retcode) ==
    pc = "done" /\ resp.status = "failed" /\ resp.retcode = retcode
NotInvoked == calls = <<>>

ActionKnown == ReqAction \in DOMAIN actions
ReqHandler == actions[ReqAction].handler
\* the request resolved to exactly one registered bot
BotResolved ==
    \/ SelectorGiven /\ SelectorKey \in RegisteredKeys
    \/ SelectorMissing /\ Len(bots) = 1
Outcome == calls[1].outcome

----------------------------------------------------------------------------
(* Claims *)

\* C1: HandleAction applies its failure checks in a fixed precedence, first
\* match wins: unknown action (10002), missing bot selector with more than
\* one bot (10101), unknown bot selector (10102), bad parameter (10003),
\* unsupported parameter (10004).  A request that violates several of these
\* at once is answered with the retcode of the earliest one, and the handler
\* is not invoked.
C1_FirstMatchWins ==
    (Dispatched /\ (SelectorMissing \/ SelectorGiven)) =>
        LET v1 == ~ActionKnown
            v2 == Len(bots) > 1 /\ SelectorMissing
            v3 == SelectorGiven /\ SelectorKey \notin RegisteredKeys
            v4 == ActionKnown /\ BadParams(ReqParams, ReqHandler)
            v5 == ActionKnown /\ UnsupportedParams(ReqParams, ReqHandler)
            several == Cardinality({i \in 1..5 :
                           <<v1, v2, v3, v4, v5>>[i]}) >= 2
        IN  several =>
              /\ NotInvoked
              /\ Failed(IF v1 THEN UNSUPPORTED_ACTION
                        ELSE IF v2 THEN WHO_AM_I
                        ELSE IF v3 THEN UNKNOWN_SELF
                        ELSE IF v4 THEN BAD_PARAM
                        ELSE UNSUPPORTED_PARAM)

\* C2: for every dispatcher and every request, HandleAction on an action
\* name that is not in the registry returns a failed response with retcode
\* 10002 and invokes no handler.
C2_UnknownAction ==
    (Dispatched /\ ~ActionKnown) =>
        Failed(UNSUPPORTED_ACTION) /\ NotInvoked

\* C2 witness: an unknown action on a dispatcher with two bots, without a
\* selector and with params, answered 10002
C2_Witness ==
    /\ Dispatched /\ ~ActionKnown
    /\ Len(bots) > 1 /\ SelectorMissing /\ DOMAIN ReqParams # {}
    /\ Failed(UNSUPPORTED_ACTION)

\* C3: with two or more registered bots, HandleAction on a registered action
\* with the bot selector absent returns a failed response with retcode 10101
\* and does not invoke the handler, whatever the params are.
C3_WhoAmI ==
    (Dispatched /\ ActionKnown /\ Len(bots) >= 2 /\ SelectorMissing) =>
        Failed(WHO_AM_I) /\ NotInvoked

\* C3 witness: two bots, a registered action, no selector, params that the
\* handler would accept, answered 10101
C3_Witness ==
    /\ Dispatched /\ ActionKnown /\ Len(bots) >= 2
    /\ "self" \notin DOMAIN data
    /\ ~BadParams(ReqParams, ReqHandler)
    /\ ~UnsupportedParams(ReqParams, ReqHandler)
    /\ Failed(WHO_AM_I)

C5_BadOrUnsupportedParam ==
    (Dispatched /\ ActionKnown /\ BotResolved) =>
        /\ BadParams(ReqParams, ReqHandler) =>
              Failed(BAD_PARAM) /\ NotInvoked
        /\ (~BadParams(ReqParams, ReqHandler)
               /\ UnsupportedParams(ReqParams, ReqHandler)) =>
              Failed(UNSUPPORTED_PARAM) /\ NotInvoked

\* C6: every ActionResponse produced for a request carries an echo equal to
\* the echo of that request, on every outcome.
C6_EchoMirrored == pc = "done" => resp.echo = ReqEcho

\* C7: when an invoked handler fails with an error that is not a domain
\* error, HandleAction returns status failed with retcode 20002, and the
\* error does not propagate to the caller of HandleAction.
C7_InternalHandlerError ==
    (calls # <<>> /\ Outcome.kind = "Exception") =>
        Failed(INTERNAL_HANDLER_ERROR)

\* C7 witness: a handler raised an Exception and the request was answered
C7_Witness ==
    calls # <<>> /\ Outcome.kind = "Exception" /\ pc = "done"

\* C8: when an invoked handler raises a domain error carrying retcode r,
\* message m and data d, HandleAction returns a failed response whose
\* retcode, message and data are exactly r, m and d.
C8_DomainErrorPassedThrough ==
    (calls # <<>> /\ Outcome.kind = "OneBotImplError") =>
        /\ pc = "done"
        /\ resp.status = "failed"
        /\ resp.retcode = Outcome.retcode
        /\ resp.message = Outcome.message
        /\ resp.data = Outcome.data

\* C8 witness: a handler raised the domain error (10005, "m1", "d1")
C8_Witness ==
    /\ calls # <<>> /\ Outcome.kind = "OneBotImplError"
    /\ Outcome.retcode = UNSUPPORTED_SEGMENT
    /\ Outcome.message = PyStr("m1") /\ Outcome.data = PyStr("d1")
    /\ resp.retcode = UNSUPPORTED_SEGMENT

\* C9: HandleAction returns status ok with retcode 0 and data equal to the
\* handler's return value exactly when the handler was invoked once and
\* returned normally; every other response has status failed.
C9_OkIffHandlerReturned ==
    pc = "done" =>
        IF calls # <<>> /\ Outcome.kind = "return"
        THEN /\ Len(calls) = 1
             /\ resp.status = "ok" /\ resp.retcode = OK
             /\ resp.data = Outcome.data
        ELSE resp.status = "failed"

\* C9 witness: a user handler returned "r1" and the response reports it
C9_Witness ==
    /\ pc = "done" /\ calls # <<>> /\ Outcome.kind = "return"
    /\ calls[1].handler \in UserHandlers
    /\ Outcome.data = PyStr("r1") /\ resp.status = "ok"

BuiltinNames == {"get_version", "get_status", "get_supported_actions"}

\* C10 (as stated): after construction and any sequence of RegisterAction
\* calls, get_version, get_status and get_supported_actions are registered,
\* and get_supported_actions returns exactly the set of action names in the
\* registry.
C10_AsStated ==
    /\ BuiltinNames \subseteq DOMAIN actions
    /\ (Dispatched /\ pc = "done" /\ ReqAction = "get_supported_actions"
           /\ resp.status = "ok") =>
          resp.data = NameList(DOMAIN actions)

\* C10 (amended): the three names are always registered, and
\* get_supported_actions, as long as no RegisterAction call has replaced its
\* handler, returns exactly the set of action names in the registry.
C10_SupportedActions ==
    /\ BuiltinNames \subseteq DOMAIN actions
    /\ (Dispatched /\ pc = "done" /\ ReqAction = "get_supported_actions"
           /\ ReqHandler = "action_get_supported_actions"
           /\ resp.status = "ok") =>
          resp.data = NameList(DOMAIN actions)

\* C10 witness: get_supported_actions reports a name added by RegisterAction
\* and the name added by the HTTP transport
C10_Witness ==
    /\ Dispatched /\ pc = "done" /\ ReqAction = "get_supported_actions"
    /\ resp.status = "ok" /\ resp.data.kind = "names"
    /\ {"hello", "get_latest_events"} \subseteq resp.data.val

----------------------------------------------------------------------------
(* Construction of the transports and of the dispatcher *)

\* constructor arguments
Tokens == {PyNone, PyStr("abc")}
Intervals == {-1, 0, DefaultInterval}

InitConstruct ==
    /\ bots = <<>>
    /\ actions = EmptyDict
    /\ regCount = 0
    /\ pc = "idle"
    /\ data = EmptyDict
    /\ calls = <<>>
    /\ resp = NoResp
    /\ TransportsUnused

\* a transport constructor returned r, or raised
Construct(call, r) ==
    /\ ~impl.built
    /\ Len(transports) < MaxConns
    /\ lastCall' = [call EXCEPT !.raised = r.raised]
    /\ transports' = IF r.raised = NoError THEN Append(transports, r.self)
                     ELSE transports
    /\ UNCHANGED <<asgi, impl, dispatchVars, authVars, httpVars, wsVars, pushVars>>

NewHTTP ==
    \E t \in Tokens, e \in BOOLEAN :
        Construct([ConstructorCall("HTTP", NoError) EXCEPT
                      !.access_token = t, !.event_enabled = e],
                  HTTP__init__(t, e, DefaultBufferSize))

NewHTTPWebhook ==
    \E t \in Tokens :
        Construct([ConstructorCall("HTTPWebhook", NoError) EXCEPT
                      !.access_token = t],
                  HTTPWebhook__init__(t))

NewWebSocket ==
    \E t \in Tokens, e \in BOOLEAN, hb \in Intervals :
        Construct([ConstructorCall("WebSocket", NoError) EXCEPT
                      !.access_token = t, !.enable_heartbeat = e,
                      !.heartbeat_interval = hb],
                  WebSocket__init__(t, e, hb))

NewWebSocketReverse ==
    \E t \in Tokens, e \in BOOLEAN, hb \in Intervals, rc \in Intervals :
        Construct([ConstructorCall("WebSocketReverse", NoError) EXCEPT
                      !.access_token = t, !.enable_heartbeat = e,
                      !.heartbeat_interval = hb, !.reconnect_interval = rc],
                  WebSocketReverse__init__(t, rc, e, hb))

\* OneBotImpl(name, version, conns, *bots) on the first n transports
NewOneBotImpl ==
    \E n \in 0..Len(transports), m \in 0..MaxBots :
        LET conns == [i \in 1..n |-> i]
            botArgs == SubSeq(AllBots, 1, m)
            r == OneBotImpl__init__(transports, asgi, conns, botArgs)
        IN  /\ ~impl.built
            /\ lastCall' = [ConstructorCall("OneBotImpl", r.raised) EXCEPT
                               !.conns = conns, !.bots = botArgs]
            /\ IF r.raised = NoError
               THEN /\ transports' = r.transports
                    /\ asgi' = r.asgi
                    /\ actions' = r.actions
                    /\ bots' = r.bots
                    /\ impl' = [built |-> TRUE, conns |-> conns,
                                conn_types |-> r.conn_types]
               ELSE \* the instance is dropped; what __init__ did to the
                    \* transports and to the ASGI application stays
                    /\ transports' = r.transports
                    /\ asgi' = r.asgi
                    /\ UNCHANGED <<actions, bots, impl>>
            /\ UNCHANGED <<regCount, pc, data, calls, resp, authVars, httpVars, wsVars, pushVars>>

NextConstruct ==
    \/ NewHTTP
    \/ NewHTTPWebhook
    \/ NewWebSocket
    \/ NewWebSocketReverse
    \/ NewOneBotImpl

SpecConstruct == InitConstruct /\ [][NextConstruct]_vars

WebSocketClasses == {"WebSocket", "WebSocketReverse"}

\* C11: a OneBotImpl constructor call with zero bots or with zero
\* connections raises ValueError, and after it no dispatcher exists, no
\* transport is bound to one or was initialised, and the ASGI application
\* has no route and no lifecycle hook.
C11_ConstructionFailsFast ==
    (lastCall.op = "OneBotImpl"
        /\ (lastCall.bots = <<>> \/ lastCall.conns = <<>>)) =>
       /\ lastCall.raised = ValueError
       /\ ~impl.built
       /\ \A i \in 1..Len(transports) :
              ~transports[i]._impl /\ transports[i].inits = 0
       /\ asgi = EmptyAsgi
       /\ actions = EmptyDict

\* a dispatcher was asked for with transports but without bots
C11_Witness ==
    /\ lastCall.op = "OneBotImpl"
    /\ lastCall.bots = <<>>
    /\ Len(lastCall.conns) = MaxConns
    /\ lastCall.raised = ValueError

\* C12: a WebSocket or WebSocketReverse call with heartbeat_interval <= 0,
\* or a WebSocketReverse call with reconnect_interval <= 0, raises
\* ValueError; every WebSocket transport that exists has a positive
\* heartbeat_interval, and a reverse one a positive reconnect_interval.
C12_PositiveIntervals ==
    /\ (lastCall.op \in WebSocketClasses /\ lastCall.heartbeat_interval <= 0)
           => lastCall.raised = ValueError
    /\ (lastCall.op = "WebSocketReverse" /\ lastCall.reconnect_interval <= 0)
           => lastCall.raised = ValueError
    /\ \A i \in 1..Len(transports) :
           /\ transports[i].cls \in WebSocketClasses
                  => transports[i].heartbeat_interval > 0
           /\ transports[i].cls = "WebSocketReverse"
                  => transports[i].reconnect_interval > 0

\* a reverse transport was refused for its reconnect_interval alone, next
\* to a WebSocket transport that was constructed
C12_Witness ==
    /\ lastCall.op = "WebSocketReverse"
    /\ lastCall.heartbeat_interval > 0
    /\ lastCall.reconnect_interval <= 0
    /\ lastCall.raised = ValueError
    /\ \E i \in 1..Len(transports) : transports[i].cls = "WebSocket"

----------------------------------------------------------------------------
(* authorize applied to one access token and one request *)

AccessTokens == {PyNone, PyStr(""), PyStr("abc"), PyStr("xyz")}
AuthorizationHeaders ==
    {EmptyDict} \cup
    {[k \in {"Authorization"} |-> PyStr(v)] :
        v \in {"", "Bearer ", "Bearer abc", "Bearer xyz", "abc"}}
AccessTokenQueries ==
    {EmptyDict} \cup
    {[k \in {"access_token"} |-> PyStr(v)] : v \in {"", "abc", "xyz"}}
Requests ==
    {HTTPConnection(h, q) : h \in AuthorizationHeaders,
                            q \in AccessTokenQueries}

NotAuthorized == [called |-> FALSE, value |-> FALSE]

InitAuthorize ==
    /\ bots = <<>>
    /\ actions = EmptyDict
    /\ regCount = 0
    /\ pc = "idle"
    /\ data = EmptyDict
    /\ calls = <<>>
    /\ resp = NoResp
    /\ CtorUnused
    /\ HttpUnused
    /\ WsUnused
    /\ PushUnused
    /\ \E t \in AccessTokens, r \in Requests :
           authArgs = [access_token |-> t, request |-> r]
    /\ authResult = NotAuthorized

Authorize ==
    /\ ~authResult.called
    /\ authResult' =
           [called |-> TRUE,
            value |-> authorize(authArgs.access_token, authArgs.request)]
    /\ UNCHANGED <<authArgs, dispatchVars, ctorVars, httpVars, wsVars, pushVars>>

NextAuthorize == Authorize

SpecAuthorize == InitAuthorize /\ [][NextAuthorize]_vars

\* C13: authorize returns true when no token is configured; otherwise it
\* returns true exactly when the Authorization header is "Bearer <token>" or
\* the access_token query parameter is the token.
C13_Authorize ==
    authResult.called =>
        LET token == authArgs.access_token
            header == DictGet(authArgs.request.headers, "Authorization")
            query == DictGet(authArgs.request.query_params, "access_token")
        IN  authResult.value <=>
                \/ token = PyNone
                \/ header = PyStr("Bearer " \o token.val)
                \/ query = token

----------------------------------------------------------------------------
(* The HTTP transport: receive_http_request, the event queue *)

\* largest number of events emitted
MaxEvents == 3
\* largest event_buffer_size
MaxBufferSize == 2

HTTP_200_OK == 200
HTTP_401_UNAUTHORIZED == 401
HTTP_415_UNSUPPORTED_MEDIA_TYPE == 415

\* a starlette Request: an HTTPConnection with a body
Request(headers, query_params, body) ==
    [headers |-> headers, query_params |-> query_params, body |-> body]
\* a body that json.loads / msgpack.unpackb decode to `d`, or reject
Body(d) == [decodable |-> TRUE, data |-> d]
Undecodable == [decodable |-> FALSE, data |-> EmptyDict]

\* a starlette Response
Response(status_code, body) == [status_code |-> status_code, body |-> body]

\* utils.detect_content_type: ContentType(type_) or None
detect_content_type(type_) ==
    IF type_ \in {"application/json", "application/msgpack"}
    THEN PyStr(type_) ELSE PyNone

\* the int of a PyInt
IntValue(v) ==
    CASE v.val = "-1" -> -1
      [] v.val = "0" -> 0
      [] v.val = "1" -> 1
      [] v.val = "2" -> 2
      [] v.val = "3" -> 3
      [] OTHER -> 5

EventList(events) == [kind |-> "events", val |-> events]

\* asyncio.Queue.empty / full (maxsize <= 0: never full)
empty(queue) == queue = <<>>
full(queue, maxsize) == IF maxsize <= 0 THEN FALSE ELSE Len(queue) >= maxsize

\* asyncio.Queue.get_nowait / put_nowait
get_nowait(queue) ==
    IF empty(queue) THEN [queue |-> queue, raised |-> "QueueEmpty"]
    ELSE [queue |-> Tail(queue), raised |-> NoError]
put_nowait(queue, maxsize, item) ==
    IF full(queue, maxsize) THEN [queue |-> queue, raised |-> "QueueFull"]
    ELSE [queue |-> Append(queue, item), raised |-> NoError]

\* the loop of HTTP.action_get_latest_events
RECURSIVE LatestEventsLoop(_, _, _, _)
LatestEventsLoop(queue, limit, times, events) ==
    IF ~empty(queue) /\ (limit = 0 \/ times <= limit)
    THEN LatestEventsLoop(Tail(queue), limit, times + 1,
                          Append(events, Head(queue)))
    ELSE [queue |-> queue, events |-> events]

\* action_get_latest_events returning the newest events first
action_get_latest_events_Newest(queue, limit) ==
    LET n == Len(queue)
        k == IF limit = 0 \/ limit > n THEN n ELSE IF limit < 0 THEN 0
             ELSE limit
    IN  [queue |-> SubSeq(queue, 1, n - k),
         events |-> SubSeq(queue, n - k + 1, n)]

\* HTTP.action_get_latest_events(limit=0, timeout=0)
action_get_latest_events(queue, limit) ==
    LatestEventsLoop(queue, limit, 1, <<>>)

\* emit_event that pushes without looking for a full queue
emit_event_NoEviction(self, queue, event) ==
    IF ~self.event_queue.enabled THEN [queue |-> queue, raised |-> NoError]
    ELSE put_nowait(queue, self.event_queue.maxsize, event)

\* HTTP.emit_event
emit_event(self, queue, event) ==
    IF ~self.event_queue.enabled THEN [queue |-> queue, raised |-> NoError]
    ELSE LET q1 == IF full(queue, self.event_queue.maxsize)
                   THEN get_nowait(queue)
                   ELSE [queue |-> queue, raised |-> NoError]
         IN  IF q1.raised # NoError THEN q1
             ELSE put_nowait(q1.queue, self.event_queue.maxsize, event)

\* what one request did: the response returned (or the exception that left
\* receive_http_request), whether Connection.run_action was called, the
\* handler that ran, the limit it got, and the queue it left
HttpOutcome(response, dispatched, handler, limit, queue) ==
    [response |-> response, raised |-> NoError, dispatched |-> dispatched,
     handler |-> handler, limit |-> limit, queue |-> queue]
NoResponse == Response(0, NoResp)

\* lines 230-239: run_action and the encoded response
DispatchHttp(acts, bs, queue, d) ==
    LET out == run_action(acts, bs, d)
        echo == DictGet(d, "echo")
    IN  CASE out.kind = "return" ->
               HttpOutcome(Response(HTTP_200_OK, out.resp), TRUE, "", 0, queue)
          [] out.kind = "raise" ->
               [HttpOutcome(NoResponse, TRUE, "", 0, queue) EXCEPT
                   !.raised = out.handler]
          [] out.handler = "action_get_latest_events" ->
               LET limit == IF "limit" \in DOMAIN out.kwargs
                            THEN IntValue(out.kwargs["limit"]) ELSE 0
                   r == action_get_latest_events(queue, limit)
               IN  HttpOutcome(Response(HTTP_200_OK,
                                    HandlerResponse(
                                        Returned(EventList(r.events)), echo)),
                           TRUE, out.handler, limit, r.queue)
          [] OTHER ->
               HttpOutcome(Response(HTTP_200_OK,
                                HandlerResponse(
                                    Returned(BuiltinResult(out.handler,
                                                           acts, bs)),
                                    echo)),
                       TRUE, out.handler, 0, queue)

\* lines 202-230: decode the body, answer 10001 when it does not decode
DecodeAndDispatch(acts, bs, queue, request) ==
    IF ~request.body.decodable
    THEN HttpOutcome(
             Response(HTTP_200_OK,
                      BadRequestResponse(
                          IF request.headers["Content-Type"].val
                                 = "application/json"
                          THEN "Invalid JSON" ELSE "Invalid MessagePack")),
             FALSE, "", 0, queue)
    ELSE DispatchHttp(acts, bs, queue, request.body.data)

\* receive_http_request with the Content-Type looked at before the token
receive_http_request_ContentTypeFirst(self, acts, bs, queue, request) ==
    IF detect_content_type(
           LET t == DictGet(request.headers, "Content-Type")
           IN  IF Falsy(t) THEN "" ELSE t.val) = PyNone
    THEN HttpOutcome(Response(HTTP_415_UNSUPPORTED_MEDIA_TYPE, NoResp),
                 FALSE, "", 0, queue)
    ELSE IF ~authorize(self.access_token, request)
    THEN HttpOutcome(Response(HTTP_401_UNAUTHORIZED, NoResp), FALSE, "", 0, queue)
    ELSE DecodeAndDispatch(acts, bs, queue, request)

\* HTTP.receive_http_request
receive_http_request(self, acts, bs, queue, request) ==
    IF ~authorize(self.access_token, request)
    THEN HttpOutcome(Response(HTTP_401_UNAUTHORIZED, NoResp), FALSE, "", 0, queue)
    ELSE IF detect_content_type(
                LET t == DictGet(request.headers, "Content-Type")
                IN  IF Falsy(t) THEN "" ELSE t.val) = PyNone
    THEN HttpOutcome(Response(HTTP_415_UNSUPPORTED_MEDIA_TYPE, NoResp),
                 FALSE, "", 0, queue)
    ELSE DecodeAndDispatch(acts, bs, queue, request)

\* the requests sent to the HTTP transport
Credentials ==
    {[headers |-> EmptyDict, query_params |-> EmptyDict],
     [headers |-> [k \in {"Authorization"} |-> PyStr("Bearer abc")],
      query_params |-> EmptyDict],
     [headers |-> [k \in {"Authorization"} |-> PyStr("Bearer xyz")],
      query_params |-> [k \in {"access_token"} |-> PyStr("abc")]],
     [headers |-> [k \in {"Authorization"} |-> PyStr("abc")],
      query_params |-> EmptyDict]}
ContentTypes ==
    {PyNone, PyStr("application/json"), PyStr("application/msgpack"),
     PyStr("text/plain")}
Limits == {PyInt("-1"), PyInt("0"), PyInt("1"), PyInt("2")}
HttpRequestData ==
    {EmptyDict,
     [k \in {"action", "params"} |->
         IF k = "action" THEN PyStr("get_status") ELSE EmptyDict],
     [k \in {"action", "params", "echo"} |->
         CASE k = "action" -> PyStr("get_latest_events")
           [] k = "params" -> EmptyDict
           [] OTHER -> PyStr("e1")]}
    \cup
    {[k \in {"action", "params"} |->
         IF k = "action" THEN PyStr("get_latest_events")
         ELSE [p \in {"limit"} |-> l]] : l \in Limits}
\* every body goes to the JSON route with and without the token; the other
\* routes get one body that would dispatch and one that does not decode
HttpRequests ==
    {Request(IF t = PyNone THEN c.headers
             ELSE DictSet(c.headers, "Content-Type", t),
             c.query_params, b) :
        c \in Credentials, t \in ContentTypes,
        b \in {Undecodable} \cup {Body(d) : d \in HttpRequestData}}
HttpRequestInputs ==
    {r \in HttpRequests :
        \/ /\ DictGet(r.headers, "Content-Type") = PyStr("application/json")
           /\ DictGet(r.headers, "Authorization")
                  \in {PyNone, PyStr("Bearer abc")}
        \/ r.body = Undecodable
        \/ r.body = Body([k \in {"action", "params"} |->
                             IF k = "action" THEN PyStr("get_status")
                             ELSE EmptyDict])}

BufferSizes == -1..MaxBufferSize

InitHttp ==
    /\ \E t \in Tokens, e \in BOOLEAN, size \in BufferSizes :
           LET http == HTTP__init__(t, e, size).self
               r == OneBotImpl__init__(<<http>>, EmptyAsgi, <<1>>,
                                       SubSeq(AllBots, 1, 1))
           IN  /\ (~e => size = 0)
               /\ transports = r.transports
               /\ asgi = r.asgi
               /\ impl = [built |-> TRUE, conns |-> <<1>>,
                          conn_types |-> r.conn_types]
               /\ lastCall = [ConstructorCall("OneBotImpl", NoError) EXCEPT
                                 !.conns = <<1>>,
                                 !.bots = SubSeq(AllBots, 1, 1)]
               /\ bots = r.bots
               /\ actions = r.actions
    /\ regCount = 0
    /\ pc = "idle"
    /\ data = EmptyDict
    /\ calls = <<>>
    /\ resp = NoResp
    /\ AuthUnused
    /\ HttpUnused
    /\ WsUnused
    /\ PushUnused

\* one POST / handled by HTTP.receive_http_request
ReceiveHttpRequest(request) ==
    \E o \in {receive_http_request(transports[1], actions, bots,
                                   event_queue, request)} :
        /\ served' = [called |-> TRUE, request |-> request,
                      response |-> o.response, raised |-> o.raised,
                      dispatched |-> o.dispatched, handler |-> o.handler,
                      limit |-> o.limit]
        /\ event_queue' = o.queue
        /\ returned' = IF o.handler = "action_get_latest_events"
                       THEN returned \o o.response.body.data.val
                       ELSE returned
        /\ UNCHANGED <<emit, dispatchVars, ctorVars, authVars, wsVars, pushVars>>

\* OneBotImpl.emit runs HTTP.emit_event with the next event
EmitEvent ==
    /\ emit.count < MaxEvents
    /\ LET r == emit_event(transports[1], event_queue, emit.count + 1)
       IN  /\ event_queue' = r.queue
           /\ emit' = [count |-> emit.count + 1, raised |-> r.raised]
    /\ UNCHANGED <<served, returned, dispatchVars, ctorVars, authVars, wsVars, pushVars>>

NextHttp ==
    \/ \E request \in HttpRequestInputs : ReceiveHttpRequest(request)
    \/ EmitEvent

SpecHttp == InitHttp /\ [][NextHttp]_vars

SupportedContentTypes ==
    {PyStr("application/json"), PyStr("application/msgpack")}
NotDispatched ==
    ~served.dispatched /\ served.handler = "" /\ served.raised = NoError

\* C14: an HTTP request that fails authorize is answered with 401, also
\* when its content type is missing or unsupported; an authorized request
\* whose Content-Type is missing or is neither application/json nor
\* application/msgpack is answered with 415; neither reaches run_action.
C14_RejectedBeforeDispatch ==
    served.called =>
        LET authorized == authorize(transports[1].access_token,
                                    served.request)
            content_type == DictGet(served.request.headers, "Content-Type")
        IN  /\ ~authorized =>
                  /\ served.response = Response(HTTP_401_UNAUTHORIZED, NoResp)
                  /\ NotDispatched
            /\ (authorized /\ content_type \notin SupportedContentTypes) =>
                  /\ served.response =
                         Response(HTTP_415_UNSUPPORTED_MEDIA_TYPE, NoResp)
                  /\ NotDispatched

\* a request with a wrong token, no Content-Type and a body that would
\* dispatch got 401
C14_Witness ==
    /\ served.called
    /\ ~authorize(transports[1].access_token, served.request)
    /\ "Content-Type" \notin DOMAIN served.request.headers
    /\ served.request.body.decodable
    /\ served.response.status_code = HTTP_401_UNAUTHORIZED

\* the emit_event step of a transport with an event queue: it returns
\* without raising, and the queue loses its head when `evicts` and gains
\* the event at its end
EmitStep(evicts) ==
    (transports[1].event_queue.enabled /\ emit'.count # emit.count) =>
        /\ emit'.raised = NoError
        /\ event_queue' = Append(IF evicts THEN Tail(event_queue)
                                 ELSE event_queue, emit'.count)

DrainCount(limit, size) ==
    IF limit = 0 \/ limit > size THEN size
    ELSE IF limit < 0 THEN 0 ELSE limit

\* C17: a get_latest_events(limit) call returns the oldest min(limit, size)
\* events of the queue in order (all for limit = 0), removes exactly these
\* and leaves the others in order; no event is ever returned twice.
C17_DrainFIFO ==
    [][(emit' = emit /\ served'.handler = "action_get_latest_events") =>
          LET k == DrainCount(served'.limit, Len(event_queue))
          IN  /\ served'.response.body.data =
                     EventList(SubSeq(event_queue, 1, k))
              /\ served'.response.body.status = "ok"
              /\ event_queue' = SubSeq(event_queue, k + 1, Len(event_queue))
              /\ \A i, j \in 1..Len(returned') :
                     returned'[i] = returned'[j] => i = j]_vars

\* capacity 2 after A, B, C: a drain with limit 1 returned [B] and left [C]
C17_Witness ==
    /\ transports[1].event_queue = Queue(2)
    /\ emit.count = 3
    /\ served.handler = "action_get_latest_events"
    /\ served.limit = 1
    /\ served.response.body.data = EventList(<<2>>)
    /\ event_queue = <<3>>

----------------------------------------------------------------------------
(* The WebSocket transports: one WebSocket or WebSocketReverse bound to a
   dispatcher, its peers, its heartbeat task and its emit_event tasks.
   Every `await` of a send or a receive is a step of its own. *)

MaxPeers == 2
MaxFrames == 2
MaxWsEvents == 1
MaxBeats == 2
\* failed dials of the reverse client
MaxDialFails == 3

\* a WebSocket message as ws.receive() delivers it: TEXT or BINARY, and what
\* json.loads / msgpack.unpackb make of it (a dict, another value, or an
\* exception)
WsMessage(content_type, decoded, d) ==
    [content_type |-> content_type, decoded |-> decoded, data |-> d]

\* list.remove(x)
Remove(list, x) ==
    IF \A i \in 1..Len(list) : list[i] # x THEN list
    ELSE LET i == CHOOSE i \in 1..Len(list) :
                      list[i] = x /\ \A j \in 1..(i - 1) : list[j] # x
         IN  SubSeq(list, 1, i - 1) \o SubSeq(list, i + 1, Len(list))

\* what a send on a connection that no longer stands raises
SendError(cls) ==
    IF cls = "WebSocket" THEN "ConnectionClosed" ELSE "ConnectionResetError"
\* what receive raises there
ReceiveError(cls) ==
    IF cls = "WebSocket" THEN "WebSocketDisconnect" ELSE "ConnectClosed"

\* ws.send_json / ws.send_msgpack of one frame on peer p
CanSend(p) == peers[p].open
Written(p, frame) == [peers EXCEPT ![p].sent = Write(@, frame)]

\* connect_to_remote without its removals: only the server's clause for
\* (WebSocketDisconnect, ConnectionClosed) takes a peer off the list
RemovedAfter_ServerOnly(cls, exc) ==
    exc \in {"WebSocketDisconnect", "ConnectionClosed"}

\* the `except` clauses around listen_ws: handle_ws_request catches
\* (WebSocketDisconnect, ConnectionClosed) and removes the peer, everything
\* else leaves the handler with the peer still listed; connect_to_remote
\* removes the peer in every case
RemovedAfter(cls, exc) ==
    \/ cls = "WebSocketReverse"
    \/ exc \in {"WebSocketDisconnect", "ConnectionClosed"}
\* connect_to_remote sleeps reconnect_interval after (ClientError,
\* ConnectClosed, ConnectionError) and dials again at once after any other
\* Exception
SleepsAfter(exc) ==
    exc \in {"ClientError", "ConnectClosed", "ConnectionResetError"}

\* connect_to_remote without its `except Exception` clause: an error that
\* is no connectivity error leaves the `while True` loop and ends the task
CoroutineEnds_NoCatchAll(p, exc, inList, received) ==
    LET cls == transports[1].cls
    IN  /\ peers' = [peers EXCEPT ![p].pc = "ended", ![p].raised = exc,
                                  ![p].open = FALSE, ![p].pending = NoFrame,
                                  ![p].received = received]
        /\ ws' = IF inList /\ RemovedAfter(cls, exc) THEN Remove(ws, p)
                 ELSE ws
        /\ client' = IF cls = "WebSocketReverse"
                     THEN IF SleepsAfter(exc)
                          THEN [client EXCEPT !.pc = "sleep", !.waits = @ + 1]
                          ELSE [client EXCEPT !.pc = "ended"]
                     ELSE client

\* the coroutine serving peer p ends with exc after it has read the frames
\* `received`: the `except` / `finally` clauses run, the connection is closed
\* behind it
CoroutineEnds(p, exc, inList, received) ==
    LET cls == transports[1].cls
    IN  /\ peers' = [peers EXCEPT ![p].pc = "ended", ![p].raised = exc,
                                  ![p].open = FALSE, ![p].pending = NoFrame,
                                  ![p].received = received]
        /\ ws' = IF inList /\ RemovedAfter(cls, exc) THEN Remove(ws, p)
                 ELSE ws
        /\ client' = IF cls = "WebSocketReverse"
                     THEN IF SleepsAfter(exc)
                          THEN [client EXCEPT !.pc = "sleep", !.waits = @ + 1]
                          ELSE [client EXCEPT !.pc = "dial"]
                     ELSE client

\* listen_ws from the return of ws.receive() to the await of send_func:
\* decode, run_action, pick send_func by the content type
listen_ws(acts, bs, message) ==
    IF message.decoded = "error" THEN Raise("ValueError")
    ELSE IF message.decoded # "dict" THEN Raise("AttributeError")
    ELSE LET out == run_action(acts, bs, message.data)
         IN  IF out.kind = "call"
             THEN Return(HandlerResponse(
                             Returned(BuiltinResult(out.handler, acts, bs)),
                             DictGet(message.data, "echo")))
             ELSE out

\* WebSocketConnection.emit_event: one send task per listed peer
Task(peer, event) == [peer |-> peer, event |-> event, state |-> "pending"]
WebSocketConnection_emit_event(list, event) ==
    [k \in 1..Len(list) |-> Task(list[k], event)]

\* the frames read from the first n connections
RECURSIVE FramesReceived(_)
FramesReceived(n) ==
    IF n = 0 THEN 0 ELSE Len(peers[n].received) + FramesReceived(n - 1)

\* the heartbeat frames written to the first n connections
RECURSIVE HeartbeatsSent(_)
HeartbeatsSent(n) ==
    IF n = 0 THEN 0
    ELSE Len(peers[n].sent.heartbeat) + HeartbeatsSent(n - 1)

otherVars == <<dispatchVars, ctorVars, authVars, event_queue, served,
               returned, wsCall, workload, pushVars>>

\* one connection that sends frames, or several that send none
Workloads ==
    {[peers |-> 1, frames |-> MaxFrames], [peers |-> MaxPeers, frames |-> 0]}

\* the transports constructed, each bound to a dispatcher with one bot
InitWs ==
    /\ \E cls \in WebSocketClasses, t \in Tokens, hb \in BOOLEAN :
           LET r0 == IF cls = "WebSocket"
                     THEN WebSocket__init__(t, hb, DefaultInterval)
                     ELSE WebSocketReverse__init__(t, DefaultInterval, hb,
                                                   DefaultInterval)
               r == OneBotImpl__init__(<<r0.self>>, EmptyAsgi, <<1>>,
                                       SubSeq(AllBots, 1, 1))
           IN  /\ wsCall = [ConstructorCall(cls, NoError) EXCEPT
                               !.access_token = t, !.enable_heartbeat = hb]
               /\ transports = r.transports
               /\ asgi = r.asgi
               /\ impl = [built |-> TRUE, conns |-> <<1>>,
                          conn_types |-> r.conn_types]
               /\ lastCall = [ConstructorCall("OneBotImpl", NoError) EXCEPT
                                 !.conns = <<1>>,
                                 !.bots = SubSeq(AllBots, 1, 1)]
               /\ bots = r.bots
               /\ actions = r.actions
    /\ regCount = 0
    /\ pc = "idle"
    /\ data = EmptyDict
    /\ calls = <<>>
    /\ resp = NoResp
    /\ AuthUnused
    /\ HttpUnused
    /\ PushUnused
    /\ ws = <<>>
    /\ peers = <<>>
    /\ heartbeat = NoHeartbeat
    /\ tasks = <<>>
    /\ client = NoClient
    /\ runner = "init"
    /\ workload \in Workloads

\* OneBotImpl.run: the runner's startup hooks start the heartbeat task (the
\* ASGI lifespan hooks of WebSocket.init_connection, impl.py lines 417-420
\* for the reverse client) and connect_to_remote
Startup ==
    /\ runner = "init"
    /\ runner' = "running"
    /\ heartbeat' = IF transports[1].enable_heartbeat
                    THEN [pc |-> "loop", i |-> 1]
                    ELSE heartbeat
    /\ client' = IF transports[1].cls = "WebSocketReverse"
                 THEN [client EXCEPT !.pc = "dial"] ELSE client
    /\ UNCHANGED <<ws, peers, tasks, emit, otherVars>>

\* mutant: connect_to_remote without its `finally`: the CancelledError
\* passes both `except` clauses and the peer stays listed
Shutdown_NoFinally ==
    /\ runner = "running"
    /\ runner' = "stopped"
    /\ IF transports[1].cls = "WebSocketReverse"
       THEN /\ client' = [client EXCEPT !.pc = "cancelled"]
            /\ peers' = [p \in 1..Len(peers) |->
                            IF peers[p].pc = "ended" THEN peers[p]
                            ELSE [peers[p] EXCEPT
                                     !.pc = "ended", !.open = FALSE,
                                     !.raised = "CancelledError",
                                     !.pending = NoFrame]]
            /\ UNCHANGED ws
       ELSE UNCHANGED <<client, peers, ws>>
    /\ UNCHANGED <<heartbeat, tasks, emit, otherVars>>

\* the runner's shutdown hooks: _stop_heartbeat clears _heartbeat_run and
\* calls task_manager.cancel_all(), which holds connect_to_remote (put
\* there by task_nowait) and not the heartbeat task (_start_heartbeat keeps
\* it in background_task); the reverse client's task_manager is cancelled
\* as well by the `_stop` hook and by ClientRunner._shutdown.
\* connect_to_remote takes the CancelledError at its await: `finally`
\* removes the peer and the connection is closed
Shutdown ==
    /\ runner = "running"
    /\ runner' = "stopped"
    /\ IF transports[1].cls = "WebSocketReverse"
       THEN /\ client' = [client EXCEPT !.pc = "cancelled"]
            /\ peers' = [p \in 1..Len(peers) |->
                            IF peers[p].pc = "ended" THEN peers[p]
                            ELSE [peers[p] EXCEPT
                                     !.pc = "ended", !.open = FALSE,
                                     !.raised = "CancelledError",
                                     !.pending = NoFrame]]
            /\ ws' = <<>>
       ELSE UNCHANGED <<client, peers, ws>>
    /\ UNCHANGED <<heartbeat, tasks, emit, otherVars>>

\* WebSocket.handle_ws_request up to the await of the connect event's send:
\* authorize, close(401) when it fails, accept. Starlette lets no accept
\* follow a close: its send raises RuntimeError
HandleWsRequest(request) ==
    /\ runner = "running"
    /\ transports[1].cls = "WebSocket"
    /\ Len(peers) < workload.peers
    /\ peers' = Append(peers,
                    IF authorize(transports[1].access_token, request)
                    THEN Peer(request)
                    ELSE [Peer(request) EXCEPT
                             !.pc = "ended", !.accepted = FALSE,
                             !.closed = TRUE, !.open = FALSE,
                             !.raised = "RuntimeError"])
    /\ UNCHANGED <<ws, heartbeat, tasks, client, runner, emit, otherVars>>

\* connect_to_remote: session.ws_connect succeeds, the peer is listed and
\* the connect event's send awaited
Dial ==
    /\ client.pc = "dial"
    /\ Len(peers) < workload.peers
    /\ peers' = Append(peers, Peer(NoRequest))
    /\ ws' = Append(ws, Len(peers) + 1)
    /\ client' = [client EXCEPT !.pc = "session"]
    /\ UNCHANGED <<heartbeat, tasks, runner, emit, otherVars>>

\* a failed dial that is followed by the next dial with no sleep
DialFails_NoWait ==
    /\ client.pc = "dial"
    /\ client.fails < MaxDialFails
    /\ client' = [client EXCEPT !.fails = @ + 1]
    /\ UNCHANGED <<ws, peers, heartbeat, tasks, runner, emit, otherVars>>

\* session.ws_connect raises ClientError: sleep reconnect_interval
DialFails ==
    /\ client.pc = "dial"
    /\ client.fails < MaxDialFails
    /\ client' = [client EXCEPT !.pc = "sleep", !.fails = @ + 1,
                                !.waits = @ + 1]
    /\ UNCHANGED <<ws, peers, heartbeat, tasks, runner, emit, otherVars>>

\* asyncio.sleep(reconnect_interval / 1000) is over
Redial ==
    /\ client.pc = "sleep"
    /\ client' = [client EXCEPT !.pc = "dial"]
    /\ UNCHANGED <<ws, peers, heartbeat, tasks, runner, emit, otherVars>>

\* the remote end goes away
PeerCloses(p) ==
    /\ peers[p].pc \in {"connect", "listen", "respond"}
    /\ peers[p].open
    /\ peers' = [peers EXCEPT ![p].open = FALSE, ![p].gone = TRUE]
    /\ UNCHANGED <<ws, heartbeat, tasks, client, runner, emit, otherVars>>

\* the send of the connect event; handle_ws_request lists the peer after
\* it and outside its `try`, connect_to_remote has listed it before
SendConnect(p) ==
    /\ peers[p].pc = "connect"
    /\ LET cls == transports[1].cls
       IN  IF CanSend(p)
           THEN /\ peers' = [Written(p, MetaConnectEvent) EXCEPT
                                ![p].pc = "listen"]
                /\ ws' = IF cls = "WebSocket" THEN Append(ws, p) ELSE ws
                /\ UNCHANGED client
           ELSE CoroutineEnds(p, SendError(cls), cls = "WebSocketReverse",
                              peers[p].received)
    /\ UNCHANGED <<heartbeat, tasks, runner, emit, otherVars>>

\* listen_ws: ws.receive() returns a message, run_action answers it
Receive(p, message) ==
    /\ peers[p].pc = "listen"
    /\ peers[p].open
    /\ FramesReceived(Len(peers)) < workload.frames
    /\ \E out \in {listen_ws(actions, bots, message)} :
           IF out.kind = "raise"
           THEN CoroutineEnds(p, out.handler, TRUE,
                              Append(peers[p].received, message.content_type))
           ELSE /\ peers' = [peers EXCEPT
                               ![p].pc = "respond",
                               ![p].received =
                                   Append(@, message.content_type),
                               ![p].pending =
                                   ResponseFrame(message.content_type,
                                                 Len(peers[p].received) + 1,
                                                 out.resp.retcode)]
                /\ UNCHANGED <<ws, client>>
    /\ UNCHANGED <<heartbeat, tasks, runner, emit, otherVars>>

\* listen_ws: ws.receive() finds the connection gone
ReceiveDisconnect(p) ==
    /\ peers[p].pc = "listen"
    /\ ~peers[p].open
    /\ CoroutineEnds(p, ReceiveError(transports[1].cls), TRUE,
                     peers[p].received)
    /\ UNCHANGED <<heartbeat, tasks, runner, emit, otherVars>>

\* listen_ws: send_func writes the response, the loop goes back to receive
Respond(p) ==
    /\ peers[p].pc = "respond"
    /\ IF CanSend(p)
       THEN /\ peers' = [Written(p, peers[p].pending) EXCEPT
                            ![p].pc = "listen", ![p].pending = NoFrame]
            /\ UNCHANGED <<ws, client>>
       ELSE CoroutineEnds(p, SendError(transports[1].cls), TRUE,
                          peers[p].received)
    /\ UNCHANGED <<heartbeat, tasks, runner, emit, otherVars>>

\* _heartbeat: the `for` loop takes the next listed peer and sends to it;
\* an exception of the send is logged and the `while` loop starts the `for`
\* loop again
HeartbeatSend ==
    /\ heartbeat.pc = "loop"
    /\ heartbeat.i <= Len(ws)
    /\ LET p == ws[heartbeat.i]
       IN  IF CanSend(p)
           THEN /\ HeartbeatsSent(Len(peers)) < MaxBeats
                /\ peers' = Written(p, MetaHeartbeatEvent(
                                           transports[1].heartbeat_interval))
                /\ heartbeat' = [heartbeat EXCEPT !.i = @ + 1]
           ELSE /\ heartbeat' = IF runner = "stopped"
                                THEN [heartbeat EXCEPT !.pc = "done"]
                                ELSE [heartbeat EXCEPT !.i = 1]
                /\ UNCHANGED peers
    /\ UNCHANGED <<ws, tasks, client, runner, emit, otherVars>>

\* _heartbeat: the `for` loop is exhausted, asyncio.sleep follows
HeartbeatSleep ==
    /\ heartbeat.pc = "loop"
    /\ heartbeat.i > Len(ws)
    /\ heartbeat' = [heartbeat EXCEPT !.pc = "sleep"]
    /\ UNCHANGED <<ws, peers, tasks, client, runner, emit, otherVars>>

\* _heartbeat: the sleep is over, the next round starts unless
\* _heartbeat_run has been cleared
HeartbeatWake ==
    /\ heartbeat.pc = "sleep"
    /\ heartbeat' = IF runner = "stopped"
                    THEN [heartbeat EXCEPT !.pc = "done"]
                    ELSE [pc |-> "loop", i |-> 1]
    /\ UNCHANGED <<ws, peers, tasks, client, runner, emit, otherVars>>

\* OneBotImpl.emit awaits WebSocketConnection.emit_event with the next event
WsEmitEvent ==
    /\ runner = "running"
    /\ emit.count < MaxWsEvents
    /\ tasks' = tasks \o WebSocketConnection_emit_event(ws, emit.count + 1)
    /\ emit' = [count |-> emit.count + 1, raised |-> NoError]
    /\ UNCHANGED <<ws, peers, heartbeat, client, runner, otherVars>>

\* the sends of one event made one after the other, the first failure
\* ending them all
RunSendTask_FailureStopsOthers(k) ==
    /\ tasks[k].state = "pending"
    /\ LET p == tasks[k].peer
       IN  IF CanSend(p)
           THEN /\ peers' = Written(p, EventFrame(tasks[k].event))
                /\ tasks' = [tasks EXCEPT ![k].state = "done"]
           ELSE /\ tasks' = [j \in 1..Len(tasks) |->
                                IF /\ tasks[j].event = tasks[k].event
                                   /\ tasks[j].state = "pending"
                                THEN [tasks[j] EXCEPT !.state = "failed"]
                                ELSE tasks[j]]
                /\ UNCHANGED peers
    /\ UNCHANGED <<ws, heartbeat, client, runner, emit, otherVars>>

\* the event loop runs one send task of emit_event
RunSendTask(k) ==
    /\ tasks[k].state = "pending"
    /\ LET p == tasks[k].peer
       IN  IF CanSend(p)
           THEN /\ peers' = Written(p, EventFrame(tasks[k].event))
                /\ tasks' = [tasks EXCEPT ![k].state = "done"]
           ELSE /\ tasks' = [tasks EXCEPT ![k].state = "failed"]
                /\ UNCHANGED peers
    /\ UNCHANGED <<ws, heartbeat, client, runner, emit, otherVars>>

\* the upgrade requests and the messages the peers send
WsRequests ==
    {HTTPConnection(EmptyDict, EmptyDict),
     HTTPConnection([k \in {"Authorization"} |-> PyStr("Bearer abc")],
                    EmptyDict)}
\* a request that is answered ok, one that is answered 10001, one whose
\* selector lacks user_id, a JSON array, and bytes that are no MessagePack
WsMessages ==
    {WsMessage("JSON", "dict",
               [k \in {"action", "params"} |->
                   IF k = "action" THEN PyStr("get_status") ELSE EmptyDict]),
     WsMessage("MSGPACK", "dict", EmptyDict),
     WsMessage("MSGPACK", "dict",
               [k \in {"action", "params", "self"} |->
                   CASE k = "action" -> PyStr("get_status")
                     [] k = "params" -> EmptyDict
                     [] OTHER -> [platform |-> "qq"]]),
     WsMessage("JSON", "list", EmptyDict),
     WsMessage("MSGPACK", "error", EmptyDict)}

NextWs ==
    \/ Startup
    \/ Shutdown
    \/ \E request \in WsRequests : HandleWsRequest(request)
    \/ Dial
    \/ DialFails
    \/ Redial
    \/ \E p \in 1..Len(peers) : PeerCloses(p)
    \/ \E p \in 1..Len(peers) : SendConnect(p)
    \/ \E p \in 1..Len(peers), message \in WsMessages : Receive(p, message)
    \/ \E p \in 1..Len(peers) : ReceiveDisconnect(p)
    \/ \E p \in 1..Len(peers) : Respond(p)
    \/ HeartbeatSend
    \/ HeartbeatSleep
    \/ HeartbeatWake
    \/ WsEmitEvent
    \/ \E k \in 1..Len(tasks) : RunSendTask(k)

SpecWs == InitWs /\ [][NextWs]_vars

----------------------------------------------------------------------------
(* Claims about the WebSocket transports *)

Attached(p) == \E i \in 1..Len(ws) : ws[i] = p

\* C15: on the WebSocket server transport an upgrade request that fails
\* Authorize against the access token the transport was configured with is
\* rejected and its handshake stops: the socket is never accepted, no
\* connect event is sent on it, the peer is never attached, and no frame
\* from it is dispatched
C15_AuthFailureRejects ==
    \A p \in 1..Len(peers) :
        (/\ wsCall.op = "WebSocket"
         /\ ~authorize(wsCall.access_token, peers[p].request))
        => /\ ~peers[p].accepted
           /\ peers[p].sent = NothingSent
           /\ ~Attached(p)
           /\ peers[p].received = <<>>

C19_OneResponsePerFrame ==
    \A p \in 1..Len(peers) :
        LET responses == peers[p].sent.response
            frames == peers[p].received
        IN  /\ Len(responses) <= Len(frames)
            /\ Len(frames) <= Len(responses) + 1
            /\ \A k \in 1..Len(responses) :
                   /\ responses[k].n = k
                   /\ responses[k].framing = frames[k]
            /\ (\/ peers[p].pc = "listen"
                \/ peers[p].pc = "ended" /\ ~peers[p].gone)
               => Len(responses) = Len(frames)

\* C20: emit_event on a WebSocket transport with N listed peers starts one
\* send task per peer and raises nothing; a send task fails only when its
\* own peer's connection is gone, its failure changes no other task, and a
\* pending task whose peer is connected can always run, so the sends to the
\* other peers still complete
C20_IndependentSends ==
    /\ [](\A k \in 1..Len(tasks) :
             (tasks[k].state = "pending" /\ peers[tasks[k].peer].open)
             => ENABLED RunSendTask(k))
    /\ [][/\ emit' # emit =>
                /\ emit'.raised = NoError
                /\ tasks' = tasks \o [i \in 1..Len(ws) |->
                                         Task(ws[i], emit'.count)]
          /\ emit' = emit => Len(tasks') = Len(tasks)
          /\ \A k \in 1..Len(tasks) :
                 /\ tasks[k].state # "pending" => tasks'[k] = tasks[k]
                 /\ tasks'[k] # tasks[k] =>
                        /\ \A j \in 1..Len(tasks) :
                               j # k => tasks'[j] = tasks[j]
                        /\ tasks'[k].state = "failed" =>
                               ~peers[tasks[k].peer].open
                        /\ tasks'[k].state = "done" =>
                               peers'[tasks[k].peer].sent.event =
                                   Append(peers[tasks[k].peer].sent.event,
                                          EventFrame(tasks[k].event))]_vars

\* one event went to two peers: the send to one failed, the send to the
\* other was made
C20_Witness ==
    \E j, k \in 1..Len(tasks) :
        /\ tasks[j].event = tasks[k].event
        /\ tasks[j].peer # tasks[k].peer
        /\ tasks[j].state = "failed"
        /\ tasks[k].state = "done"
        /\ peers[tasks[k].peer].sent.event = <<EventFrame(tasks[k].event)>>
        /\ emit.raised = NoError

\* C22: with heartbeat enabled every round sends a heartbeat event that
\* carries heartbeat_interval to each listed peer in turn, going on to the
\* next peer also when a send fails; a round ends only when the list is
\* exhausted and the next one starts only after the wait; with heartbeat
\* disabled no heartbeat frame is ever sent
C22_HeartbeatRounds ==
    /\ [](\A p \in 1..Len(peers) :
             /\ ~transports[1].enable_heartbeat
                => peers[p].sent.heartbeat = <<>>
             /\ \A k \in 1..Len(peers[p].sent.heartbeat) :
                    peers[p].sent.heartbeat[k].n
                        = transports[1].heartbeat_interval)
    /\ [][heartbeat' # heartbeat =>
             /\ (heartbeat'.pc = "loop" /\ heartbeat'.i = 1)
                => heartbeat.pc \in {"off", "sleep"}
             /\ (heartbeat.pc = "loop" /\ heartbeat'.pc = "loop")
                => heartbeat'.i = heartbeat.i + 1
             /\ (heartbeat.pc = "loop" /\ heartbeat'.pc = "sleep")
                => heartbeat.i > Len(ws)]_vars

\* C23: once the shutdown hook of a WebSocket transport has run, the
\* heartbeat task has stopped: it is not left in its interval wait nor in
\* its loop, and no heartbeat frame is written to any peer any more
C23_HeartbeatStopsPromptly ==
    /\ [](runner = "stopped" => heartbeat.pc \in {"off", "done"})
    /\ [][runner = "stopped" =>
             \A p \in 1..Len(peers) :
                 peers'[p].sent.heartbeat = peers[p].sent.heartbeat]_vars

\* C24: a reverse client whose first k dials fail and whose next dial
\* succeeds has by then begun exactly k waits of reconnect_interval, one
\* after each failure, none before the first dial and none after the
\* success; the first thing connect_to_remote does on the new connection is
\* to send the connect event, exactly once
C24_WaitsThenConnect ==
    transports[1].cls = "WebSocketReverse" =>
        /\ (Len(peers) = 0 /\ client.pc \in {"dial", "sleep"})
           => client.waits = client.fails
        /\ (Len(peers) = 0 /\ client.pc = "sleep") => client.fails > 0
        /\ (Len(peers) = 1 /\ client.pc = "session")
           => /\ client.waits = client.fails
              /\ peers[1].pc = "connect"
                 => /\ peers[1].sent.connect = <<>>
                    /\ peers[1].sent.response = <<>>
                    /\ peers[1].received = <<>>
              /\ peers[1].pc # "connect"
                 => peers[1].sent.connect = <<MetaConnectEvent>>
\* three dials failed, the fourth succeeded and the connect event is sent
C24_Witness ==
    /\ transports[1].cls = "WebSocketReverse"
    /\ Len(peers) = 1 /\ client.pc = "session"
    /\ client.fails = 3 /\ client.waits = 3
    /\ peers[1].pc = "listen"
    /\ peers[1].sent.connect = <<MetaConnectEvent>>

\* C25: the reverse client comes to a dial only from its start or from a
\* wait of reconnect_interval: after a failed dial and after a session that
\* ended for whatever reason it waits before it dials again
C25_WaitBeforeEveryRedial ==
    [][(client'.pc = "dial" /\ client.pc # "dial")
           => client.pc \in {"off", "sleep"}]_vars

C27_OneDialAtATime ==
    transports[1].cls = "WebSocketReverse" =>
        LET live == {p \in 1..Len(peers) : peers[p].pc # "ended"}
        IN  /\ Cardinality(live) <= 1
            /\ Len(ws) <= 1
            /\ \A k \in 1..Len(ws) : ws[k] \in live
            /\ (client.pc = "session") <=> (live # {})
            /\ client.pc \in {"dial", "sleep"} => ws = <<>>
\* the second connection of a reverse client is attached after the first
\* one has ended and been taken off the list
C27_Witness ==
    /\ transports[1].cls = "WebSocketReverse"
    /\ client.pc = "session"
    /\ Len(peers) = 2
    /\ peers[1].pc = "ended"
    /\ ws = <<2>>

\* C30: no inbound frame makes the listen loop of a WebSocket peer end with
\* the error of a frame that does not decode or does not decode to an
\* object: such a frame is answered, and the loop reads on
C30_MalformedNeverRaises ==
    \A p \in 1..Len(peers) :
        /\ peers[p].raised \notin {"ValueError", "AttributeError"}
        /\ peers[p].pc = "respond"
           => Len(peers[p].received) = Len(peers[p].sent.response) + 1

----------------------------------------------------------------------------
(* connection.py: HTTPWebhook.emit_event *)

\* emit_event calls made on the webhook
MaxWebhookEvents == 2
\* action requests in one reply
MaxActions == 2

HTTP_204_NO_CONTENT == 204

\* the reply to a POST: its status, its Content-Type header ("" when there
\* is none), what its body really is (JSON text, MessagePack bytes, or
\* neither) and the list the body holds
Reply(status, content_type, encoding, items) ==
    [status |-> status, content_type |-> content_type,
     encoding |-> encoding, items |-> items]

\* lines 387-397: json.loads / msgpack.unpackb of the body by the detected
\* content type, MessagePack when none was detected. A body of the other
\* kind raises: the error the `except` names, after which emit_event
\* returns, or another ValueError (UnicodeDecodeError of json.loads on
\* bytes, msgpack's ExtraData), which leaves emit_event
Decodes(reply) ==
    IF detect_content_type(reply.content_type) = PyStr("application/json")
    THEN reply.encoding = "json"
    ELSE reply.encoding = "msgpack"

\* lines 363-399: the reply arrives; 204 and every status but 200 end
\* emit_event, a 200 has its body read and decoded and the `for` loop over
\* the decoded list begins
Answer(reply) ==
    /\ webhook.pc = "post"
    /\ IF reply.status = HTTP_204_NO_CONTENT \/ reply.status # HTTP_200_OK
       THEN webhook' = [webhook EXCEPT !.pc = "idle", !.reply = reply]
       ELSE IF ~Decodes(reply)
       THEN \E raises \in BOOLEAN :
                webhook' = [webhook EXCEPT
                               !.pc = "idle", !.reply = reply,
                               !.raised = IF raises THEN "ValueError"
                                          ELSE NoError]
       ELSE webhook' = [webhook EXCEPT
                           !.pc = IF reply.items = <<>> THEN "idle"
                                  ELSE "dispatch",
                           !.reply = reply, !.i = 1]
    /\ UNCHANGED <<fanout, lifespan, dispatchVars, ctorVars, authVars, httpVars, wsVars>>

\* lines 352-362: emit_event opens a session and POSTs the event
Post ==
    /\ webhook.pc = "idle"
    /\ webhook.calls < MaxWebhookEvents
    /\ webhook' = [webhook EXCEPT
                      !.pc = "post", !.calls = @ + 1, !.posts = @ + 1,
                      !.reply = NoReply, !.i = 0, !.dispatched = <<>>,
                      !.raised = NoError]
    /\ UNCHANGED <<fanout, lifespan, dispatchVars, ctorVars, authVars, httpVars, wsVars>>

\* session.post raises (no connection, timeout): nothing catches it
PostFails ==
    /\ webhook.pc = "post"
    /\ webhook' = [webhook EXCEPT !.pc = "idle", !.raised = "ClientError"]
    /\ UNCHANGED <<fanout, lifespan, dispatchVars, ctorVars, authVars, httpVars, wsVars>>

\* the `for` loop leaves at the first action that is answered `failed`
RunPiggyback_StopOnFailed ==
    /\ webhook.pc = "dispatch"
    /\ \E out \in {run_action(actions, bots, webhook.reply.items[webhook.i])} :
           IF out.kind = "raise"
           THEN webhook' = [webhook EXCEPT !.pc = "idle",
                                          !.raised = out.handler]
           ELSE LET retcode == IF out.kind = "call" THEN OK
                               ELSE out.resp.retcode
                    last == webhook.i = Len(webhook.reply.items)
                             \/ retcode # OK
                IN  webhook' = [webhook EXCEPT
                                   !.pc = IF last THEN "idle" ELSE "dispatch",
                                   !.i = @ + 1,
                                   !.dispatched =
                                       Append(@, [item |-> webhook.i,
                                                  retcode |-> retcode])]
    /\ UNCHANGED <<fanout, lifespan, dispatchVars, ctorVars, authVars, httpVars, wsVars>>

\* lines 400-401: `await self.run_action(action)` for the next action of
\* the list; the response is dropped, an exception leaves emit_event
RunPiggyback ==
    /\ webhook.pc = "dispatch"
    /\ \E out \in {run_action(actions, bots, webhook.reply.items[webhook.i])} :
           IF out.kind = "raise"
           THEN webhook' = [webhook EXCEPT !.pc = "idle",
                                          !.raised = out.handler]
           ELSE LET retcode == IF out.kind = "call" THEN OK
                               ELSE out.resp.retcode
                    last == webhook.i = Len(webhook.reply.items)
                IN  webhook' = [webhook EXCEPT
                                   !.pc = IF last THEN "idle" ELSE "dispatch",
                                   !.i = @ + 1,
                                   !.dispatched =
                                       Append(@, [item |-> webhook.i,
                                                  retcode |-> retcode])]
    /\ UNCHANGED <<fanout, lifespan, dispatchVars, ctorVars, authVars, httpVars, wsVars>>

\* the action requests a reply lists: get_status, an action that is not
\* supported, a request with no action, a request whose bot selector has
\* no user_id
PiggybackActions ==
    {[k \in {"action", "params"} |->
         IF k = "action" THEN PyStr("get_status") ELSE EmptyDict],
     [k \in {"action", "params"} |->
         IF k = "action" THEN PyStr("nope") ELSE EmptyDict],
     EmptyDict,
     [k \in {"action", "params", "self"} |->
         CASE k = "action" -> PyStr("get_status")
           [] k = "params" -> EmptyDict
           [] OTHER -> [platform |-> "qq"]]}
ActionLists ==
    UNION {[1..n -> PiggybackActions] : n \in 0..MaxActions}
Replies ==
    {Reply(HTTP_204_NO_CONTENT, "", "garbage", <<>>),
     Reply(HTTP_401_UNAUTHORIZED, "application/json", "json", <<>>)}
    \cup {Reply(HTTP_200_OK, ct, enc, items) :
             ct \in {"application/json", "application/msgpack",
                     "text/plain", ""},
             enc \in {"json", "msgpack", "garbage"},
             items \in ActionLists}

InitWebhook ==
    /\ \E t \in Tokens :
           LET hook == HTTPWebhook__init__(t).self
               r == OneBotImpl__init__(<<hook>>, EmptyAsgi, <<1>>,
                                       SubSeq(AllBots, 1, 1))
           IN  /\ transports = r.transports
               /\ asgi = r.asgi
               /\ impl = [built |-> TRUE, conns |-> <<1>>,
                          conn_types |-> r.conn_types]
               /\ lastCall = [ConstructorCall("OneBotImpl", NoError) EXCEPT
                                 !.conns = <<1>>,
                                 !.bots = SubSeq(AllBots, 1, 1)]
               /\ bots = r.bots
               /\ actions = r.actions
    /\ regCount = 0
    /\ pc = "idle"
    /\ data = EmptyDict
    /\ calls = <<>>
    /\ resp = NoResp
    /\ AuthUnused
    /\ HttpUnused
    /\ WsUnused
    /\ PushUnused

NextWebhook ==
    \/ Post
    \/ PostFails
    \/ \E reply \in Replies : Answer(reply)
    \/ RunPiggyback

SpecWebhook == InitWebhook /\ [][NextWebhook]_vars

\* C28: the webhook makes exactly one POST for every emit_event call; and
\* when the reply is a 204, has any status other than 200, or is a 200 whose
\* Content-Type is missing or unsupported or whose body does not decode,
\* no action of the reply is dispatched
C28_OnePostNoPiggyback ==
    /\ webhook.posts = webhook.calls
    /\ (\/ webhook.reply.status # HTTP_200_OK
        \/ detect_content_type(webhook.reply.content_type) = PyNone
        \/ ~Decodes(webhook.reply))
       => /\ webhook.pc # "dispatch"
          /\ webhook.dispatched = <<>>

\* C29: the actions of a 200 reply that decodes are dispatched one at a
\* time in the order of the body, each once, the next one after the one
\* before has been answered, also when that answer is a failed response;
\* nothing is sent for them; unless an action raises, all are dispatched
C29_PiggybackInOrder ==
    /\ \A k \in 1..Len(webhook.dispatched) : webhook.dispatched[k].item = k
    /\ Len(webhook.dispatched) <= Len(webhook.reply.items)
    /\ webhook.pc = "dispatch"
       => /\ webhook.i = Len(webhook.dispatched) + 1
          /\ webhook.reply.status = HTTP_200_OK
          /\ Decodes(webhook.reply)
    /\ webhook.pc \in {"dispatch", "idle"} => webhook.posts = webhook.calls
    /\ (/\ webhook.pc = "idle"
        /\ webhook.raised = NoError
        /\ webhook.reply.status = HTTP_200_OK
        /\ Decodes(webhook.reply))
       => Len(webhook.dispatched) = Len(webhook.reply.items)
\* two actions dispatched, the first answered with a failed response
C29_Witness ==
    /\ webhook.pc = "idle"
    /\ webhook.reply.status = HTTP_200_OK
    /\ Len(webhook.dispatched) = 2
    /\ webhook.dispatched[1].retcode # OK
    /\ webhook.dispatched[2].retcode = OK

----------------------------------------------------------------------------
(* impl.py: OneBotImpl.emit *)

\* emit calls made
MaxEmits == 2

\* the `conns` argument of emit: None, or a list of transports
DefaultTarget == [given |-> FALSE, conns |-> <<>>]
Target(conns) == [given |-> TRUE, conns |-> conns]

\* the task asyncio.create_task makes of conn.emit_event(event)
EmitTask(conn, event) == [conn |-> conn, event |-> event, state |-> "pending"]

\* lines 339-345: one task for every entry of `conns`, none of them awaited
OneBotImpl_emit(self_conns, target, event) ==
    LET conns == IF ~target.given THEN self_conns ELSE target.conns
    IN  [conns |-> conns,
         tasks |-> [i \in 1..Len(conns) |-> EmitTask(conns[i], event)]]

\* OneBotImpl.emit(event, conns)
Emit(target) ==
    /\ fanout.calls < MaxEmits
    /\ \E o \in {OneBotImpl_emit(impl.conns, target, fanout.calls + 1)} :
           fanout' = [calls |-> fanout.calls + 1,
                      targets |-> Append(fanout.targets, o.conns),
                      tasks |-> fanout.tasks \o o.tasks,
                      raised |-> NoError]
    /\ UNCHANGED <<webhook, lifespan, dispatchVars, ctorVars, authVars, httpVars, wsVars>>

\* emit with `await conn.emit_event(event)` in its loop: a delivery starts
\* when every delivery before it is over
RunEmitTask_Awaited(k, outcome) ==
    /\ fanout.tasks[k].state = "pending"
    /\ \A j \in 1..(k - 1) : fanout.tasks[j].state \in {"done", "failed"}
    /\ fanout' = [fanout EXCEPT !.tasks[k].state = outcome]
    /\ UNCHANGED <<webhook, lifespan, dispatchVars, ctorVars, authVars, httpVars, wsVars>>

\* the event loop runs the task of one conn.emit_event: it ends, it raises
\* (the exception stays in the task), or it blocks at an await
RunEmitTask(k, outcome) ==
    /\ fanout.tasks[k].state = "pending"
    /\ fanout' = [fanout EXCEPT !.tasks[k].state = outcome]
    /\ UNCHANGED <<webhook, lifespan, dispatchVars, ctorVars, authVars, httpVars, wsVars>>

\* a blocked delivery goes on
ResumeEmitTask(k, outcome) ==
    /\ fanout.tasks[k].state = "blocked"
    /\ outcome # "blocked"
    /\ fanout' = [fanout EXCEPT !.tasks[k].state = outcome]
    /\ UNCHANGED <<webhook, lifespan, dispatchVars, ctorVars, authVars, httpVars, wsVars>>

TaskOutcomes == {"done", "failed", "blocked"}
EmitTargets == {DefaultTarget, Target(<<>>), Target(<<2>>), Target(<<3, 1>>)}

\* an HTTP, an HTTPWebhook and a WebSocket transport under one OneBotImpl
InitEmit ==
    /\ \E t \in Tokens :
           LET r == OneBotImpl__init__(
                        <<HTTP__init__(t, TRUE, DefaultBufferSize).self,
                          HTTPWebhook__init__(t).self,
                          WebSocket__init__(t, TRUE, DefaultInterval).self>>,
                        EmptyAsgi, <<1, 2, 3>>, SubSeq(AllBots, 1, 1))
           IN  /\ transports = r.transports
               /\ asgi = r.asgi
               /\ impl = [built |-> TRUE, conns |-> <<1, 2, 3>>,
                          conn_types |-> r.conn_types]
               /\ lastCall = [ConstructorCall("OneBotImpl", NoError) EXCEPT
                                 !.conns = <<1, 2, 3>>,
                                 !.bots = SubSeq(AllBots, 1, 1)]
               /\ bots = r.bots
               /\ actions = r.actions
    /\ regCount = 0
    /\ pc = "idle"
    /\ data = EmptyDict
    /\ calls = <<>>
    /\ resp = NoResp
    /\ AuthUnused
    /\ HttpUnused
    /\ WsUnused
    /\ PushUnused

NextEmit ==
    \/ \E target \in EmitTargets : Emit(target)
    \/ \E k \in 1..Len(fanout.tasks), outcome \in TaskOutcomes :
           RunEmitTask(k, outcome)
    \/ \E k \in 1..Len(fanout.tasks), outcome \in TaskOutcomes :
           ResumeEmitTask(k, outcome)

SpecEmit == InitEmit /\ [][NextEmit]_vars

RECURSIVE Concat(_)
Concat(lists) ==
    IF lists = <<>> THEN <<>> ELSE Head(lists) \o Concat(Tail(lists))

\* C21: emit with the default target starts emit_event once for every
\* entry of self.conns, and with an explicit list once for every entry of
\* that list and for no other transport; emit itself never fails; and a
\* delivery that has failed or is blocked keeps no other delivery from
\* starting
C21_FanOut ==
    /\ [](/\ fanout.raised = NoError
          /\ [k \in 1..Len(fanout.tasks) |-> fanout.tasks[k].conn]
                 = Concat(fanout.targets)
          /\ \A k \in 1..Len(fanout.tasks) :
                 fanout.tasks[k].state = "pending"
                 => ENABLED RunEmitTask(k, "done"))
    /\ [][fanout'.calls # fanout.calls =>
             \E target \in EmitTargets :
                 /\ ~target.given
                    => fanout'.targets = Append(fanout.targets, impl.conns)
                 /\ target.given
                    => fanout'.targets = Append(fanout.targets, target.conns)
                 /\ Len(fanout'.tasks)
                        = Len(fanout.tasks)
                              + Len(fanout'.targets[fanout'.calls])
                 /\ \A k \in 1..Len(fanout.tasks) :
                        fanout'.tasks[k] = fanout.tasks[k]]_vars
\* emit with the default target: the delivery to the first transport is
\* blocked, the one to the second has failed, the third is delivered
C21_Witness ==
    /\ fanout.calls = 1
    /\ fanout.targets = <<impl.conns>>
    /\ Len(fanout.tasks) = 3
    /\ fanout.tasks[1].state = "blocked"
    /\ fanout.tasks[2].state = "failed"
    /\ fanout.tasks[3].state = "done"

\* C31: the list of attached peers of a WebSocket transport never holds a
\* peer whose listen loop has ended, however it ended: by a disconnect, a
\* failed send or a frame that raised
C31_NoDeadPeerListed ==
    \A i \in 1..Len(ws) : peers[ws[i]].pc # "ended"

\* C32: the list of attached peers never holds a peer twice, and a peer
\* that is attached or removed while a heartbeat round is under way does not
\* change which peer the round serves next: the listed peer the round has
\* come to is still the one it sends to after the change, so no peer that
\* stays attached is passed over
C32_RoundKeepsItsPlace ==
    /\ [](\A i, j \in 1..Len(ws) : ws[i] = ws[j] => i = j)
    /\ [][(/\ heartbeat.pc = "loop" /\ heartbeat'.pc = "loop"
           /\ ws' # ws
           /\ heartbeat.i <= Len(ws)
           /\ \E k \in 1..Len(ws') : ws'[k] = ws[heartbeat.i])
          => /\ heartbeat'.i <= Len(ws')
             /\ ws'[heartbeat'.i] = ws[heartbeat.i]]_vars

\* C33: after the shutdown hooks no task the transport has spawned is left
\* running: the reconnect loop is cancelled, the heartbeat task is over and
\* no send task of emit_event is still to run
C33_NoTaskLeftRunning ==
    runner = "stopped" =>
        /\ client.pc \in {"off", "cancelled"}
        /\ heartbeat.pc \in {"off", "done"}
        /\ \A k \in 1..Len(tasks) : tasks[k].state # "pending"

\* C34: the transports a constructed dispatcher holds, which are those emit
\* fans out to by default, are of pairwise different kinds, and each of them
\* is bound to the dispatcher and was initialised exactly once
C34_OnePerKindAllBound ==
    impl.built =>
        /\ \A i, j \in 1..Len(impl.conns) :
               transports[impl.conns[i]].cls = transports[impl.conns[j]].cls
                   => i = j
        /\ \A i \in 1..Len(impl.conns) :
               /\ transports[impl.conns[i]]._impl
               /\ transports[impl.conns[i]].inits = 1

C36_ServerKeepsToken ==
    (lastCall.op \in {"WebSocket", "HTTP"} /\ lastCall.raised = NoError)
        => transports[Len(transports)].access_token = lastCall.access_token

----------------------------------------------------------------------------
(* utils.py: LifespanManager, TaskManager; runner.py: ClientRunner *)

\* hooks registered on one list
MaxHooks == 2
\* tasks the hooks hand to the TaskManager
MaxTasks == 2

\* the frame of the actions of the runner
runnerOther == <<webhook, fanout, dispatchVars, ctorVars, authVars, httpVars, wsVars>>

\* LifespanManager.on_startup(func)
on_startup(func) ==
    /\ lifespan.pc = "init"
    /\ Len(lifespan.startup) < MaxHooks
    /\ lifespan' = [lifespan EXCEPT !.startup = Append(@, func)]
    /\ UNCHANGED runnerOther

\* LifespanManager.on_shutdown(func)
on_shutdown(func) ==
    /\ lifespan.pc = "init"
    /\ Len(lifespan.shutdown) < MaxHooks
    /\ lifespan' = [lifespan EXCEPT !.shutdown = Append(@, func)]
    /\ UNCHANGED runnerOther

\* ClientRunner.run up to `await self.lifespan_manager.startup()`: the
\* signal handlers are set
Run ==
    /\ lifespan.pc = "init"
    /\ lifespan' = [lifespan EXCEPT !.pc = "startup", !.i = 1]
    /\ UNCHANGED runnerOther

\* _handle_exit: SIGINT or SIGTERM sets should_exit
HandleExit ==
    /\ lifespan.pc \in {"startup", "loop", "shutdown"}
    /\ ~lifespan.should_exit
    /\ lifespan' = [lifespan EXCEPT !.should_exit = TRUE]
    /\ UNCHANGED runnerOther

\* TaskManager.task_nowait: the task is created and kept in self.tasks
task_nowait(ts) == Append(ts, "running")

\* TaskManager.cancel_all: every task that is not done is cancelled
cancel_all(ts) ==
    [k \in 1..Len(ts) |-> IF ts[k] = "running" THEN "cancelled" ELSE ts[k]]

\* LifespanManager.startup: `await func()` of the next hook, which returns,
\* having started a task or not, or raises; after the last hook run() goes
\* on to `await self._loop()`
Startup_Hook(raises, spawns) ==
    /\ lifespan.pc = "startup"
    /\ IF lifespan.i > Len(lifespan.startup)
       THEN /\ ~raises /\ ~spawns
            /\ lifespan' = [lifespan EXCEPT !.pc = "loop"]
       ELSE /\ spawns => Len(lifespan.tasks) < MaxTasks
            /\ lifespan' =
                 [lifespan EXCEPT
                    !.log = Append(@, <<"startup", lifespan.startup[lifespan.i]>>),
                    !.i = @ + 1,
                    !.tasks = IF spawns THEN task_nowait(@) ELSE @,
                    !.pc = IF raises THEN "raised" ELSE @,
                    !.raised = IF raises THEN "Exception" ELSE @]
    /\ UNCHANGED runnerOther

\* _loop: should_exit.wait() returns once the event is set
Loop ==
    /\ lifespan.pc = "loop"
    /\ lifespan.should_exit
    /\ lifespan' = [lifespan EXCEPT !.pc = "shutdown", !.i = 1]
    /\ UNCHANGED runnerOther

\* LifespanManager.shutdown running its hooks last registered first
Shutdown_Hook_Reversed(raises) ==
    /\ lifespan.pc = "shutdown"
    /\ IF lifespan.i > Len(lifespan.shutdown)
       THEN /\ ~raises
            /\ lifespan' = [lifespan EXCEPT !.pc = "done",
                                           !.tasks = cancel_all(@)]
       ELSE lifespan' =
              [lifespan EXCEPT
                 !.log = Append(@, <<"shutdown",
                                     lifespan.shutdown[
                                        Len(lifespan.shutdown) + 1
                                            - lifespan.i]>>),
                 !.i = @ + 1,
                 !.pc = IF raises THEN "raised" ELSE @,
                 !.raised = IF raises THEN "Exception" ELSE @]
    /\ UNCHANGED runnerOther

\* _shutdown: LifespanManager.shutdown awaits the next hook; after the last
\* one task_manager.cancel_all() runs and run() returns
Shutdown_Hook(raises) ==
    /\ lifespan.pc = "shutdown"
    /\ IF lifespan.i > Len(lifespan.shutdown)
       THEN /\ ~raises
            /\ lifespan' = [lifespan EXCEPT !.pc = "done",
                                           !.tasks = cancel_all(@)]
       ELSE lifespan' =
              [lifespan EXCEPT
                 !.log = Append(@, <<"shutdown",
                                     lifespan.shutdown[lifespan.i]>>),
                 !.i = @ + 1,
                 !.pc = IF raises THEN "raised" ELSE @,
                 !.raised = IF raises THEN "Exception" ELSE @]
    /\ UNCHANGED runnerOther

\* a task of the TaskManager ends by itself: its done callback drops it
TaskDone(k) ==
    /\ lifespan.pc \in {"startup", "loop", "shutdown"}
    /\ lifespan.tasks[k] = "running"
    /\ lifespan' = [lifespan EXCEPT !.tasks[k] = "done"]
    /\ UNCHANGED runnerOther

HookNames == {"run", "heartbeat"}

InitRunner ==
    /\ bots = <<>>
    /\ actions = EmptyDict
    /\ regCount = 0
    /\ pc = "idle"
    /\ data = EmptyDict
    /\ calls = <<>>
    /\ resp = NoResp
    /\ TransportsUnused

NextRunner ==
    \/ \E func \in HookNames : on_startup(func)
    \/ \E func \in HookNames : on_shutdown(func)
    \/ Run
    \/ HandleExit
    \/ \E raises, spawns \in BOOLEAN : Startup_Hook(raises, spawns)
    \/ Loop
    \/ \E raises \in BOOLEAN : Shutdown_Hook(raises)
    \/ \E k \in 1..Len(lifespan.tasks) : TaskDone(k)

SpecRunner == InitRunner /\ [][NextRunner]_vars

\* the hooks run so far are the first hooks of the startup list in order,
\* followed, once it has begun, by the first hooks of the shutdown list
HooksRun(kind) == SelectSeq(lifespan.log, LAMBDA e : e[1] = kind)

\* C37: the hooks run in the order of their registration, each once for
\* every registration; the runner waits for the exit signal only when all
\* startup hooks have returned, a shutdown hook runs only after the exit
\* signal and after every startup hook, and when run() has returned every
\* shutdown hook has run and no task of the TaskManager is still running
C37_HooksInOrder ==
    LET ranUp == HooksRun("startup")
        ranDown == HooksRun("shutdown")
    IN  /\ Len(ranUp) <= Len(lifespan.startup)
        /\ \A k \in 1..Len(ranUp) : ranUp[k][2] = lifespan.startup[k]
        /\ Len(ranDown) <= Len(lifespan.shutdown)
        /\ \A k \in 1..Len(ranDown) : ranDown[k][2] = lifespan.shutdown[k]
        /\ lifespan.log = ranUp \o ranDown
        /\ lifespan.pc \in {"loop", "shutdown", "done"}
           => Len(ranUp) = Len(lifespan.startup)
        /\ ranDown # <<>>
           => lifespan.should_exit /\ Len(ranUp) = Len(lifespan.startup)
        /\ lifespan.pc \in {"shutdown", "done"} => lifespan.should_exit
        /\ lifespan.pc = "done"
           => /\ Len(ranDown) = Len(lifespan.shutdown)
              /\ \A k \in 1..Len(lifespan.tasks) :
                     lifespan.tasks[k] # "running"
\* run() has returned after two startup and two shutdown hooks and has
\* cancelled a task that was still running
C37_Witness ==
    /\ lifespan.pc = "done"
    /\ lifespan.startup = <<"run", "heartbeat">>
    /\ lifespan.shutdown = <<"heartbeat", "run">>
    /\ Len(lifespan.log) = 4
    /\ \E k \in 1..Len(lifespan.tasks) : lifespan.tasks[k] = "cancelled"

----------------------------------------------------------------------------
(* The injected bot and the aliased parameters *)

\* the names of the current-bot parameters of a handler
BotParams(func) ==
    {analytic_typing(func)[i].name : i \in
        {j \in 1..Len(analytic_typing(func)) :
            analytic_typing(func)[j].typing_type = "BOT"}}

\* the params of the request in flight with key k removed or set to any value
ParamsVarying(k) ==
    {DictPop(ReqParams, k)} \cup {DictSet(ReqParams, k, v) : v \in ParamValues}

\* C38: the bot injected into a handler's current-bot parameter is the bot
\* resolved from the request's selector (or the sole bot): the handler that
\* was called holds that bot under the parameter's name, and every request
\* that differs from the one in flight only in the params entry of that name
\* reaches the same handler with the same bot.
C38_InjectedBotFromSelector ==
    (calls # <<>> /\ calls[1].handler \in UserHandlers
        /\ ActionKnown /\ ReqHandler = calls[1].handler) =>
        \A c \in BotParams(calls[1].handler) :
            /\ c \in DOMAIN calls[1].kwargs
            /\ calls[1].kwargs[c] = BotValue(ExpectedBot)
            /\ \A p \in ParamsVarying(c) :
                  LET other == handle_action(actions, bots, ReqAction, p,
                                             DictGet(data, "self"), ReqEcho)
                  IN  /\ other.kind = "call"
                      /\ other.handler = calls[1].handler
                      /\ other.kwargs = calls[1].kwargs

\* C38 witness: a request whose params carry a value under the name of the
\* current-bot parameter reached the handler, with two bots registered
C38_Witness ==
    /\ calls # <<>> /\ calls[1].handler = "f_msg"
    /\ Len(bots) = 2 /\ SelectorGiven
    /\ "c" \in DOMAIN ReqParams /\ ReqParams["c"].kind = "str"
    /\ calls[1].kwargs["c"] = BotValue(ExpectedBot)

\* C39: for the parameter b of f_ext, declared with the alias extra.param
\* and the default 5: a request that carries extra.param reaches the handler
\* with that value under b and is not answered 10004; a request that omits
\* extra.param passes validation and the handler receives the default.
C39_AliasedParam ==
    (Dispatched /\ ActionKnown /\ BotResolved /\ ReqHandler = "f_ext"
        /\ (calls # <<>> => calls[1].handler = "f_ext")) =>
        /\ (DOMAIN ReqParams = {"extra.param"}
               /\ ReqParams["extra.param"].kind = "int") =>
              /\ calls # <<>>
              /\ calls[1].kwargs = [b |-> ReqParams["extra.param"]]
        /\ DOMAIN ReqParams = {} =>
              /\ ~Failed(BAD_PARAM)
              /\ calls # <<>>
              /\ \/ "b" \notin DOMAIN calls[1].kwargs
                 \/ calls[1].kwargs["b"] = Signature("f_ext")[1].default

\* C40: when connect_to_remote is cancelled at shutdown, wherever it stands
\* (dialing, sending the connect event, listening, answering, waiting to
\* reconnect), the peer list is empty and no connection is live from that
\* step on, the loop dials no more (no connection is added, the task stays
\* cancelled), an emit_event creates no send task, and no frame is written
\* to any connection afterwards.
C40_CancelledClientStops ==
    [][/\ client'.pc = "cancelled" =>
             /\ ws' = <<>>
             /\ WebSocketConnection_emit_event(ws', emit'.count + 1) = <<>>
             /\ \A p \in 1..Len(peers') :
                   peers'[p].pc = "ended" /\ ~peers'[p].open
       /\ client.pc = "cancelled" =>
             /\ client' = client
             /\ Len(peers') = Len(peers)
             /\ Len(tasks') = Len(tasks)
             /\ \A p \in 1..Len(peers) : peers'[p].sent = peers[p].sent]_vars

\* C40 witness: the client was cancelled while its connection was listening,
\* after a heartbeat had been written to it, and the heartbeat task has
\* come to its end since
C40_Witness ==
    /\ transports[1].cls = "WebSocketReverse"
    /\ client.pc = "cancelled"
    /\ Len(peers) = 1
    /\ peers[1].raised = "CancelledError"
    /\ peers[1].sent.heartbeat # <<>>
    /\ ws = <<>>
    /\ heartbeat.pc = "done"

====
